---- MODULE Spec2Model ----
(***************************************************************************)
(* Model of the edge face-recognition pipeline's core components:          *)
(*   - FaceTracker / FaceTrack      (edge/pipeline/face_tracker.py)        *)
(*   - IndexSync                    (edge/pipeline/index_sync.py)          *)
(*   - RecognitionPublisher         (edge/pipeline/recognition_publisher.py)*)
(*   - FaceRecognitionPipeline      (edge/pipeline/face_recognition_pipeline.py)*)
(* Each component is owned by one object and shares no state with the      *)
(* others, so each has its own specification over the common variables:    *)
(* SpecTrk, SpecRec and SpecHist, SpecIdx, SpecDedup and SpecPub (FairSpecPub for     *)
(* liveness, SpecPubClean with the publisher's cleanup), SpecPipe.         *)
(* FairSpecIdx and FairSpecSyncLoop follow one run of IndexSync under fair  *)
(* scheduling; SpecFrame is the frame loop driving its own FaceTracker.     *)
(* Time is in whole seconds.                                               *)
(***************************************************************************)
EXTENDS Integers, Sequences, FiniteSets, TLC

VARIABLES
  now,                  \* time.time() / datetime.now(), in seconds
  \* ---- FaceTracker ----
  tracks,               \* self.tracks: track_id -> FaceTrack
  disappeared_counts,   \* self.disappeared_counts: track_id -> int
  total_tracks_created,
  total_tracks_expired,
  frames_processed,
  next_track_id,        \* source of fresh uuid4 track ids
  update_returned,      \* ids of the track list returned by the last update()
  rec_result,           \* ids returned by the last get_tracks_for_recognition()
  rec_call,             \* [time, interval] of that call, or NoCall
  trk_ghost,            \* history of the calls, for the properties only
  \* ---- IndexSync ----
  index,                \* self.index: the FAISS IndexFlatIP (its dimension and rows)
  templates,            \* self.templates
  template_map,         \* self.template_map: row number -> template
  sync_count,
  last_sync_time,
  searches_performed,
  matches_found,
  disk,                 \* the two cache files: face_index.faiss, face_metadata.pkl
  idx_pc,               \* where initialize() / the background sync loop is suspended
  sync_returned,        \* return value of the last sync_with_backend(), "none" while it runs
  search_out,           \* what the search_similar() call just made returned
  idx_ghost,            \* history, for the properties only
  \* ---- RecognitionPublisher ----
  pub_pc,               \* "constructed", "probing" (initialize awaits its probe), "running"
  publish_queue,        \* self.publish_queue
  offline_queue,        \* self.offline_queue
  recent_events,        \* self.recent_events: event hash -> time
  events_published,
  events_failed,
  events_deduplicated,
  offline_events,
  batches_sent,
  backend_available,
  since_conn_check,     \* current_time - self.last_connection_check, capped at the interval
  bw_pc,                \* _batch_worker: "off", "poll", "sending"
  bw_batch,             \* its local batch
  bw_elapsed,           \* current_time - last_batch_time, capped at batch_timeout
  rw_pc,                \* _offline_retry_worker: "off", "sleeping", "probe", "sending"
  send,                 \* per worker, where its _send_batch() call stands
  backend_mode,         \* "any", or "ok" once the backend answers 200 to everything
  pub_last,             \* the publish call or POST exchange the last step completed
  pub_ghost,            \* history, for the properties only
  \* ---- FaceRecognitionPipeline ----
  running,              \* self.running
  pipeline_task,        \* self.pipeline_task: index into pl_tasks, 0 for None
  pl_tasks,             \* every _pipeline_loop task created so far: "waiting" (for
                        \* a frame), "in_frame", "cancelling" or "done"
  components,           \* per component field: "none", "failed" or "initialized"
  init_pc,              \* initialize(): "new", "steps", "unwinding", "returned_*"
  init_step,            \* position of initialize in its components list
  cleanup_pc,           \* cleanup(): "idle", "stopping", "gathering", "done"
  cleanups,             \* per component cleanup(): "idle", "pending", "running",
                        \* "ok" or "raised"
  stop_waiting,         \* tasks awaited by stop() calls that have not returned
  pl_calls,             \* number of start() and stop() calls made
  pl_last,              \* the call the last step completed
  \* ---- FaceRecognitionPipeline._pipeline_loop, frame by frame ----
  frame_pc,             \* "waiting" (for a frame), "recognize" (inside
                        \* _process_frame, after face_tracker.update) or "ended"
  pl_frames_processed,  \* self.stats.frames_processed
  faces_detected,       \* self.stats.faces_detected
  faces_recognized,     \* self.stats.faces_recognized
  recognitions_published, \* self.stats.recognitions_published
  frm_ghost             \* history of the frames, for the properties only

NoCall == [time |-> -1, interval |-> -1]

trkVars == <<tracks, disappeared_counts, total_tracks_created, total_tracks_expired,
             frames_processed, next_track_id, update_returned, rec_result, rec_call,
             trk_ghost>>

idxVars == <<index, templates, template_map, sync_count, last_sync_time,
             searches_performed, matches_found, disk, idx_pc, sync_returned,
             search_out, idx_ghost>>

pubVars == <<pub_pc, publish_queue, offline_queue, recent_events, events_published,
             events_failed, events_deduplicated, offline_events, batches_sent,
             backend_available, since_conn_check, bw_pc, bw_batch, bw_elapsed, rw_pc,
             send, backend_mode, pub_last, pub_ghost>>

frmVars == <<frame_pc, pl_frames_processed, faces_detected, faces_recognized,
             recognitions_published, frm_ghost>>

plLifeVars == <<running, pipeline_task, pl_tasks, components, init_pc, init_step,
                cleanup_pc, cleanups, stop_waiting, pl_calls, pl_last>>

plVars == <<plLifeVars, frmVars>>

vars == <<now, trkVars, idxVars, pubVars, plVars>>

(***************************************************************************)
(* Bounds of the model                                                     *)
(***************************************************************************)
StartTime == 100        \* value of the clock when the components are constructed
MaxTrkElapsed == 10     \* the tracker is explored for this many seconds
MaxFrames == 3          \* update() calls explored
MaxAttempts == 1        \* mark_track_recognized() calls explored per track
max_disappeared == 1    \* FaceTracker(max_disappeared=...), scaled down from 30
max_distance == 2       \* FaceTracker(max_distance=...), scaled down from 100.0

\* bounding boxes (x, y, w, h) and confidences (in tenths) the detector may report
Detections ==
  { [bbox |-> <<0, 0, 2, 2>>, confidence |-> 9],
    [bbox |-> <<2, 0, 3, 2>>, confidence |-> 5],
    [bbox |-> <<1, 2, 2, 2>>, confidence |-> 9] }

\* detection lists of one frame: at most two faces
DetectionLists ==
  {<<>>} \cup { <<d>> : d \in Detections }
         \cup { <<d, e>> : d \in Detections, e \in Detections }

\* detection lists of the runs that follow the recognition throttle in time
RecDetectionLists ==
  { <<d>> : d \in { e \in Detections : e.bbox[2] = 0 } }
  \cup { <<d, e>> : d \in { x \in Detections : x.bbox[1] = 0 },
                   e \in { x \in Detections : x.bbox[2] # 0 } }

recognition_interval == 5       \* config.recognition_interval, seconds
MinIntervals == {0, recognition_interval}   \* min_interval arguments
TickSteps == {recognition_interval}         \* the clock is sampled at these steps

(***************************************************************************)
(* Helpers                                                                 *)
(***************************************************************************)
Min(a, b) == IF a <= b THEN a ELSE b
Max(a, b) == IF a >= b THEN a ELSE b

LastN(s, n) == IF Len(s) <= n THEN s ELSE SubSeq(s, Len(s) - n + 1, Len(s))

(***************************************************************************)
(* FaceTrack                                                               *)
(***************************************************************************)
max_history == 3        \* max_history of add_detection, scaled down from 50
MaxHistFrames == 5      \* update() calls explored where the histories fill up

\* FaceTracker._get_detection_center
DetectionCenter(d) ==
  <<d.bbox[1] + (d.bbox[3] \div 2), d.bbox[2] + (d.bbox[4] \div 2)>>

\* FaceTrack.center
TrackCenter(t) ==
  IF t.detections = <<>> THEN <<0, 0>>
  ELSE DetectionCenter(t.detections[Len(t.detections)])

\* FaceTrack(): the dataclass defaults
EmptyTrack(t) ==
  [ detections |-> <<>>, last_seen |-> t, first_seen |-> t,
    confidence_history |-> <<>>, position_history |-> <<>>,
    is_active |-> TRUE, recognition_attempts |-> 0, last_recognition_time |-> 0 ]

\* an add_detection that, at the cap, keeps the oldest entries
AddDetectionKeepOldest(trk, d, t) ==
  LET dets == Append(trk.detections, d)
      conf == Append(trk.confidence_history, d.confidence)
      pos  == Append(trk.position_history,
                     TrackCenter([trk EXCEPT !.detections = dets]))
  IN [trk EXCEPT !.detections = SubSeq(dets, 1, Min(Len(dets), max_history)),
                 !.confidence_history = SubSeq(conf, 1, Min(Len(conf), max_history)),
                 !.position_history = SubSeq(pos, 1, Min(Len(pos), max_history)),
                 !.last_seen = t]

\* FaceTrack.add_detection
AddDetection(trk, d, t) ==
  LET dets == Append(trk.detections, d)
      conf == Append(trk.confidence_history, d.confidence)
      pos  == Append(trk.position_history,
                     TrackCenter([trk EXCEPT !.detections = dets]))
  IN [trk EXCEPT !.detections = LastN(dets, max_history),
                 !.confidence_history = LastN(conf, max_history),
                 !.position_history = LastN(pos, max_history),
                 !.last_seen = t]

\* FaceTrack.duration
Duration(trk) == trk.last_seen - trk.first_seen

\* is_stable asking for two detections only
IsStableTwoDetections(trk) == 2 * Duration(trk) >= 1 /\ Len(trk.detections) >= 2

\* FaceTrack.is_stable: duration >= 0.5 and len(detections) >= 3
IsStable(trk) == 2 * Duration(trk) >= 1 /\ Len(trk.detections) >= 3

\* FaceTrack.should_recognize
ShouldRecognize(trk, min_interval, t) ==
  /\ IsStable(trk)
  /\ trk.is_active
  /\ (t - trk.last_recognition_time) >= min_interval

\* mark_recognized counting the attempt twice
MarkRecognizedTwice(trk, t) ==
  [trk EXCEPT !.recognition_attempts = @ + 2, !.last_recognition_time = t]

\* mark_recognized counting the attempt without stamping its time
MarkRecognizedNoStamp(trk, t) ==
  [trk EXCEPT !.recognition_attempts = @ + 1]

\* FaceTrack.mark_recognized
MarkRecognized(trk, t) ==
  [trk EXCEPT !.recognition_attempts = @ + 1, !.last_recognition_time = t]

(***************************************************************************)
(* FaceTracker                                                             *)
(***************************************************************************)
\* FaceTracker._calculate_distance, squared: sqrt is monotone and exact on the
\* squares involved, so distances are compared through their squares
Distance2(c1, c2) ==
  (c1[1] - c2[1]) * (c1[1] - c2[1]) + (c1[2] - c2[2]) * (c1[2] - c2[2])

\* the candidate test with < in place of <=
WithinMaxDistanceStrict(d2) == d2 < max_distance * max_distance

\* distances[i, j] <= self.max_distance
WithinMaxDistance(d2) == d2 <= max_distance * max_distance

\* list(self.tracks.keys()): dicts keep insertion order, ids are handed out in
\* increasing order, so the enumeration order is the numeric order
RECURSIVE SortedSeq(_)
SortedSeq(S) ==
  IF S = {} THEN <<>>
  ELSE LET m == CHOOSE x \in S : \A y \in S : x <= y
       IN <<m>> \o SortedSeq(S \ {m})

\* a sort that, at equal distance, puts the later track first
CandidateLessLaterTrack(a, b) ==
  \/ a[1] < b[1]
  \/ a[1] = b[1] /\ a[2] > b[2]
  \/ a[1] = b[1] /\ a[2] = b[2] /\ a[3] < b[3]

\* tuple comparison used by candidates.sort(): (distance, track_idx, detection_idx)
CandidateLess(a, b) ==
  \/ a[1] < b[1]
  \/ a[1] = b[1] /\ a[2] < b[2]
  \/ a[1] = b[1] /\ a[2] = b[2] /\ a[3] < b[3]

\* the candidate list of _assign_detections_to_tracks, as a set of
\* <<distance^2, track_idx, detection_idx>>
Candidates(track_centers, detection_centers) ==
  { <<Distance2(track_centers[i], detection_centers[j]), i, j>> :
      <<i, j>> \in { p \in (DOMAIN track_centers) \X (DOMAIN detection_centers) :
                      WithinMaxDistance(
                        Distance2(track_centers[p[1]], detection_centers[p[2]])) } }

\* the greedy loop over the sorted candidates; the result is the set of
\* committed <<track_idx, detection_idx>> pairs
RECURSIVE GreedyAssign(_, _, _, _)
GreedyAssign(cands, used_tracks, used_detections, acc) ==
  IF cands = {} THEN acc
  ELSE LET c == CHOOSE x \in cands : \A y \in cands : x = y \/ CandidateLess(x, y)
       IN IF c[2] \notin used_tracks /\ c[3] \notin used_detections
          THEN GreedyAssign(cands \ {c}, used_tracks \cup {c[2]},
                            used_detections \cup {c[3]}, acc \cup {<<c[2], c[3]>>})
          ELSE GreedyAssign(cands \ {c}, used_tracks, used_detections, acc)

\* FaceTracker._assign_detections_to_tracks: the (track_id, detection_idx)
\* assignments; detection_idx 0 stands for None (an unassigned track)
AssignDetectionsToTracks(detection_centers, track_centers, track_ids) ==
  IF detection_centers = <<>> \/ track_centers = <<>> THEN {}
  ELSE LET pairs == GreedyAssign(Candidates(track_centers, detection_centers),
                                 {}, {}, {})
           used  == { p[1] : p \in pairs }
       IN { <<track_ids[p[1]], p[2]>> : p \in pairs }
          \cup { <<track_ids[i], 0>> : i \in DOMAIN track_ids \ used }

\* dict.get(track_id, 0)
GetCount(counts, id) == IF id \in DOMAIN counts THEN counts[id] ELSE 0

\* a handler that counts the frame for the tracks already missing only
HandleNoDetectionsMissingOnly(counts, trks) ==
  [id \in DOMAIN counts \cup DOMAIN trks |->
     IF id \in DOMAIN trks /\ GetCount(counts, id) > 0
     THEN GetCount(counts, id) + 1 ELSE GetCount(counts, id)]

\* FaceTracker._handle_no_detections
HandleNoDetections(counts, trks) ==
  [id \in DOMAIN counts \cup DOMAIN trks |->
     IF id \in DOMAIN trks THEN GetCount(counts, id) + 1 ELSE counts[id]]

\* FaceTracker._cleanup_expired_tracks: the ids it removes
ExpiredTracks(counts) == { id \in DOMAIN counts : counts[id] > max_disappeared }

\* a tracker whose new tracks of one frame all get the same track_id: the last
\* one created replaces the others in the map
NewTracksSameId(dets, U, first_id, t) ==
  [id \in { first_id : k \in DOMAIN U } |->
     AddDetection(EmptyTrack(t), dets[U[Len(U)]], t)]

\* a tracker that starts a track for the first unassigned detection only
NewTracksFirstOnly(dets, U, first_id, t) ==
  [id \in { first_id + k - 1 : k \in DOMAIN U \cap {1} } |->
     AddDetection(EmptyTrack(t), dets[U[id - first_id + 1]], t)]

\* FaceTracker._create_new_track for the detections dets[U[1]], dets[U[2]], ...
\* in that order: the tracks created, keyed by their fresh ids
NewTracks(dets, U, first_id, t) ==
  [id \in { first_id + k - 1 : k \in DOMAIN U } |->
     AddDetection(EmptyTrack(t), dets[U[id - first_id + 1]], t)]

Restrict(f, S) == [x \in S |-> f[x]]

\* history kept for the properties: whether every update() so far carried exactly
\* one detection that moved at most max_distance, the id of the first track, the
\* centre of the last single detection, the times of the first and of the last
\* update() call, when each track was last marked, when
\* get_tracks_for_recognition(recognition_interval) last returned each track, and
\* whether such a call returned a track that an earlier such call had returned
\* less than recognition_interval seconds before
TrkGhostInit ==
  [ cont_ok |-> TRUE, cont_id |-> 0, prev_center |-> <<0, 0>>,
    marked_at |-> <<>>, offered_at |-> <<>>, reoffered |-> FALSE,
    first_update |-> 0, last_update |-> 0 ]

TrkInit ==
  /\ tracks = <<>>
  /\ disappeared_counts = <<>>
  /\ total_tracks_created = 0
  /\ total_tracks_expired = 0
  /\ frames_processed = 0
  /\ next_track_id = 1
  /\ update_returned = {}
  /\ rec_result = {}
  /\ rec_call = NoCall
  /\ trk_ghost = TrkGhostInit

\* the history after update(dets)
GhostAfterUpdate(dets, new_tracks) ==
  LET one == Len(dets) = 1
      c   == IF one THEN DetectionCenter(dets[1]) ELSE trk_ghost.prev_center
      near == frames_processed = 0
              \/ Distance2(c, trk_ghost.prev_center) <= max_distance * max_distance
  IN [trk_ghost EXCEPT
        !.cont_ok = @ /\ one /\ near,
        !.prev_center = c,
        !.first_update = IF frames_processed = 0 THEN now ELSE @,
        !.last_update = now,
        !.cont_id = IF frames_processed = 0 /\ DOMAIN new_tracks # {}
                    THEN CHOOSE id \in DOMAIN new_tracks :
                           \A o \in DOMAIN new_tracks : id <= o
                    ELSE @]

\* FaceTracker.update, no detections: lines 159-162
UpdateNoDetections ==
  /\ tracks' = tracks
  /\ disappeared_counts' = HandleNoDetections(disappeared_counts, tracks)
  /\ UNCHANGED <<total_tracks_created, total_tracks_expired, next_track_id>>
  /\ trk_ghost' = GhostAfterUpdate(<<>>, tracks)

\* FaceTracker.update, no existing tracks: lines 164-168
UpdateNoTracks(dets) ==
  LET created == NewTracks(dets, [k \in DOMAIN dets |-> k], next_track_id, now)
  IN /\ tracks' = created
     /\ disappeared_counts' =
          [id \in DOMAIN disappeared_counts \cup DOMAIN created |->
             IF id \in DOMAIN created THEN 0 ELSE disappeared_counts[id]]
     /\ total_tracks_created' = total_tracks_created + Len(dets)
     /\ next_track_id' = next_track_id + Len(dets)
     /\ UNCHANGED total_tracks_expired
     /\ trk_ghost' = GhostAfterUpdate(dets, created)

\* FaceTracker.update, association: lines 170-204
UpdateAssociate(dets) ==
  LET track_ids == SortedSeq(DOMAIN tracks)
      detection_centers == [j \in DOMAIN dets |-> DetectionCenter(dets[j])]
      track_centers == [i \in DOMAIN track_ids |-> TrackCenter(tracks[track_ids[i]])]
      assignments == AssignDetectionsToTracks(detection_centers, track_centers,
                                              track_ids)
      committed == { a \in assignments : a[2] # 0 }
      used_detection_indices == { a[2] : a \in committed }
      used_track_ids == { a[1] : a \in committed }
      DetOf(id) == CHOOSE j \in DOMAIN dets : <<id, j>> \in committed
      tracks1 == [id \in DOMAIN tracks |->
                    IF id \in used_track_ids
                    THEN AddDetection(tracks[id], dets[DetOf(id)], now)
                    ELSE tracks[id]]
      counts1 == [id \in DOMAIN disappeared_counts \cup DOMAIN tracks |->
                    IF id \in used_track_ids THEN 0
                    ELSE IF id \in DOMAIN tracks
                         THEN GetCount(disappeared_counts, id) + 1
                         ELSE disappeared_counts[id]]
      U == SortedSeq(DOMAIN dets \ used_detection_indices)
      created == NewTracks(dets, U, next_track_id, now)
      tracks2 == [id \in DOMAIN tracks1 \cup DOMAIN created |->
                    IF id \in DOMAIN created THEN created[id] ELSE tracks1[id]]
      counts2 == [id \in DOMAIN counts1 \cup DOMAIN created |->
                    IF id \in DOMAIN created THEN 0 ELSE counts1[id]]
      expired == ExpiredTracks(counts2)
  IN /\ tracks' = Restrict(tracks2, DOMAIN tracks2 \ expired)
     /\ disappeared_counts' = Restrict(counts2, DOMAIN counts2 \ expired)
     /\ total_tracks_created' = total_tracks_created + Len(U)
     /\ next_track_id' = next_track_id + Len(U)
     /\ total_tracks_expired' = total_tracks_expired + Cardinality(expired)
     /\ trk_ghost' = GhostAfterUpdate(dets, tracks2)

\* FaceTracker.update(detections), followed for n calls
UpdateWithin(dets, n) ==
  /\ frames_processed < n
  /\ frames_processed' = frames_processed + 1
  /\ IF Len(dets) = 0 THEN UpdateNoDetections
     ELSE IF DOMAIN tracks = {} THEN UpdateNoTracks(dets)
     ELSE UpdateAssociate(dets)
  /\ update_returned' = DOMAIN tracks'
  /\ rec_result' = {}
  /\ rec_call' = NoCall

Update(dets) ==
  /\ UpdateWithin(dets, MaxFrames)
  /\ UNCHANGED <<now, idxVars, pubVars, plVars>>

\* FaceTracker.get_tracks_for_recognition(min_interval)
GetTracksForRecognition(min_interval) ==
  /\ rec_result' = { id \in DOMAIN tracks :
                       ShouldRecognize(tracks[id], min_interval, now) }
  /\ rec_call' = [time |-> now, interval |-> min_interval]
  /\ trk_ghost' =
       IF min_interval # recognition_interval THEN trk_ghost
       ELSE [trk_ghost EXCEPT
               !.offered_at = [id \in DOMAIN @ \cup rec_result' |->
                                 IF id \in rec_result' THEN now ELSE @[id]],
               !.reoffered = @ \/ \E id \in rec_result' \cap DOMAIN trk_ghost.offered_at :
                                    now - trk_ghost.offered_at[id] < recognition_interval]
  /\ UNCHANGED <<now, tracks, disappeared_counts, total_tracks_created,
                 total_tracks_expired, frames_processed, next_track_id,
                 update_returned, idxVars, pubVars, plVars>>

\* FaceTracker.mark_track_recognized(track_id)
MarkTrackRecognized(track_id) ==
  /\ track_id \in DOMAIN tracks => tracks[track_id].recognition_attempts < MaxAttempts
  /\ IF track_id \in DOMAIN tracks
     THEN /\ tracks' = [tracks EXCEPT ![track_id] = MarkRecognized(@, now)]
          /\ trk_ghost' = [trk_ghost EXCEPT !.marked_at =
                 [id \in DOMAIN @ \cup {track_id} |->
                    IF id = track_id THEN now ELSE @[id]]]
     ELSE UNCHANGED <<tracks, trk_ghost>>
  /\ rec_result' = {}
  /\ rec_call' = NoCall
  /\ UNCHANGED <<now, disappeared_counts, total_tracks_created, total_tracks_expired,
                 frames_processed, next_track_id, update_returned, idxVars, pubVars, plVars>>

\* time passes between the calls of the frame loop
TrkTick(d) ==
  /\ now + d <= StartTime + MaxTrkElapsed
  /\ now' = now + d
  /\ rec_result' = {}
  /\ rec_call' = NoCall
  /\ UNCHANGED <<tracks, disappeared_counts, total_tracks_created, total_tracks_expired,
                 frames_processed, next_track_id, update_returned, trk_ghost, idxVars, pubVars, plVars>>

\* one face per frame, followed until the histories are full
HistNext ==
  \/ \E d \in Detections :
        UpdateWithin(<<d>>, MaxHistFrames) /\ UNCHANGED <<now, idxVars, pubVars, plVars>>
  \/ \E d \in TickSteps : TrkTick(d)

\* the frame-by-frame association, every detection list
TrkNext ==
  \E dets \in DetectionLists : Update(dets)

\* the recognition throttle in time
RecNext ==
  \/ \E dets \in RecDetectionLists : Update(dets)
  \/ \E mi \in MinIntervals : GetTracksForRecognition(mi)
  \/ \E id \in 1..next_track_id : MarkTrackRecognized(id)
  \/ \E d \in TickSteps : TrkTick(d)


(***************************************************************************)
(* IndexSync                                                               *)
(***************************************************************************)
embedding_dim == 2      \* config.embedding_dim, scaled down from 512
MaxSyncs == 2           \* sync_with_backend() runs explored
MaxLoopSyncs == 3       \* the same, where only the sync loop is followed
MaxSearches == 1        \* search_similar() calls explored per run of the program
MaxRestarts == 1        \* times the program is ended and started again

\* unit vectors are kept in fixed point: a component c stands for c / Scale
Scale == 5
similarity_threshold_tenths == 7

\* a vector of the configured dimension with components a, b, 0, ..., 0
Vec(a, b) == [k \in 1..embedding_dim |-> IF k = 1 THEN a ELSE IF k = 2 THEN b ELSE 0]
\* a vector of another dimension
WrongDimVec(a) == [k \in 1..(embedding_dim + 1) |-> IF k = 1 THEN a ELSE 0]

Item(e, t, v) == [employee_code |-> e, template_id |-> t, embedding |-> v,
                  has_fields |-> TRUE]

\* catalog payloads GET /api/face-templates may answer with
CatalogA == << Item("E1", "T1", Vec(3, 0)) >>
CatalogB == << Item("E1", "T1", Vec(3, 4)), Item("E2", "T2", Vec(0, 2)) >>
CatalogMissingField ==
  << [employee_code |-> "E1", template_id |-> "T1", embedding |-> Vec(3, 0),
      has_fields |-> FALSE] >>
CatalogWrongDim == << Item("E1", "T1", WrongDimVec(3)) >>
CatalogMixedDim == << Item("E1", "T1", Vec(3, 0)), Item("E2", "T2", WrongDimVec(3)) >>
Catalogs == { <<>>, CatalogA, CatalogB, CatalogMissingField, CatalogWrongDim,
              CatalogMixedDim }

\* answers of the backend to the GET: a status, or the request raising
FetchAnswers == { [kind |-> "status", status |-> 200],
                  [kind |-> "status", status |-> 500],
                  [kind |-> "error", status |-> 0] }
\* response.json(): a catalog, or a body that is no JSON list of objects
FetchBodies == { [json |-> TRUE, data |-> c] : c \in Catalogs }
               \cup { [json |-> FALSE, data |-> <<>>] }

\* outcomes of _save_index_cache: both files written, faiss.write_index raises,
\* the index file is written and opening the metadata file raises, or the
\* metadata file is opened (truncated) and pickle.dump raises
SaveOutcomes == {"ok", "index_write_raises", "metadata_open_raises",
                 "metadata_write_raises"}

\* query embeddings and k of search_similar
Queries == { Vec(3, 0), Vec(0, 2), WrongDimVec(3) }
TopKs == {1, 2}

RECURSIVE SumSquares(_, _)
SumSquares(v, n) == IF n = 0 THEN 0 ELSE v[n] * v[n] + SumSquares(v, n - 1)

\* np.linalg.norm, on vectors whose norm is a whole number
Norm(v) ==
  LET ss == SumSquares(v, Len(v))
  IN CHOOSE r \in 0..ss : r * r <= ss /\ ss < (r + 1) * (r + 1)

\* embedding / np.linalg.norm(embedding)
Normalize(v) == [k \in DOMAIN v |-> (v[k] * Scale) \div Norm(v)]

RECURSIVE Dot(_, _, _)
Dot(u, v, n) == IF n = 0 THEN 0 ELSE u[n] * v[n] + Dot(u, v, n - 1)

NoIndex == [exists |-> FALSE, d |-> 0, vecs |-> <<>>]

\* faiss.IndexFlatIP(self.embedding_dim)
NewIndex == [exists |-> TRUE, d |-> embedding_dim, vecs |-> <<>>]

\* one template of _fetch_templates_from_backend
ParseItem(item) ==
  [employee_code |-> item.employee_code, template_id |-> item.template_id,
   embedding |-> Normalize(item.embedding)]

\* _fetch_templates_from_backend once the body is read: the template list, or
\* None (ok = FALSE) when an item lacks a field (KeyError, caught at line 270)
ParseCatalog(body) ==
  IF ~body.json \/ \E i \in DOMAIN body.data : ~body.data[i].has_fields
  THEN [ok |-> FALSE, templates |-> <<>>]
  ELSE [ok |-> TRUE, templates |-> [i \in DOMAIN body.data |-> ParseItem(body.data[i])]]

\* {i: template for i, template in enumerate(templates)}
Enumerate(tpls) == [i \in 0..(Len(tpls) - 1) |-> tpls[i + 1]]

\* _rebuild_index: the (index, templates, template_map) it leaves and whether it
\* raised. _create_new_index runs first; np.vstack raises on rows of different
\* length, index.add raises on rows whose length is not the index dimension.
RebuildIndex(tpls) ==
  LET emptied == [index |-> NewIndex, templates |-> <<>>, template_map |-> <<>>]
      vstack_ok == \A i, j \in DOMAIN tpls :
                      Len(tpls[i].embedding) = Len(tpls[j].embedding)
      add_ok == \A i \in DOMAIN tpls : Len(tpls[i].embedding) = NewIndex.d
  IN IF tpls = <<>> THEN [raised |-> FALSE, st |-> emptied]
     ELSE IF ~vstack_ok \/ ~add_ok THEN [raised |-> TRUE, st |-> emptied]
     ELSE [raised |-> FALSE,
           st |-> [index |-> [NewIndex EXCEPT
                                !.vecs = [i \in DOMAIN tpls |-> tpls[i].embedding]],
                   templates |-> tpls,
                   template_map |-> Enumerate(tpls)]]

AbsentFile == [state |-> "absent"]
CorruptFile == [state |-> "corrupt"]
File(content) == [state |-> "ok", content |-> content]

\* _save_index_cache: the cache files it leaves
SaveIndexCache(d, idx, tpls, tmap, lst, outcome) ==
  IF ~idx.exists \/ outcome = "index_write_raises" THEN d
  ELSE IF outcome = "metadata_open_raises"
  THEN [index_file |-> File(idx), meta_file |-> d.meta_file]
  ELSE IF outcome = "metadata_write_raises"
  THEN [index_file |-> File(idx), meta_file |-> CorruptFile]
  ELSE [index_file |-> File(idx),
        meta_file |-> File([templates |-> tpls, template_map |-> tmap,
                            last_sync_time |-> lst])]

\* a load that keeps the index it has read when the metadata cannot be read
LoadOrCreateKeepsIndex(d) ==
  IF d.index_file.state = "ok" /\ d.meta_file.state = "ok"
  THEN [index |-> d.index_file.content,
        templates |-> d.meta_file.content.templates,
        template_map |-> d.meta_file.content.template_map]
  ELSE IF d.index_file.state = "ok"
  THEN [index |-> d.index_file.content, templates |-> <<>>, template_map |-> <<>>]
  ELSE [index |-> NewIndex, templates |-> <<>>, template_map |-> <<>>]

\* _load_cached_index followed by _create_new_index when it returns False
\* (initialize, lines 118-121): the (index, templates, template_map) serving
LoadOrCreate(d) ==
  IF d.index_file.state = "ok" /\ d.meta_file.state = "ok"
  THEN [index |-> d.index_file.content,
        templates |-> d.meta_file.content.templates,
        template_map |-> d.meta_file.content.template_map]
  ELSE [index |-> NewIndex, templates |-> <<>>, template_map |-> <<>>]

\* the cache a previous run of the program may have left
CachedOf(cat) ==
  LET r == RebuildIndex(ParseCatalog([json |-> TRUE, data |-> cat]).templates).st
  IN [index_file |-> File(r.index),
      meta_file |-> File([templates |-> r.templates, template_map |-> r.template_map,
                          last_sync_time |-> 0])]
NoCache == [index_file |-> AbsentFile, meta_file |-> AbsentFile]
\* each of the two files is as an earlier run saved it, absent, or unreadable
LeftBehindCaches ==
  { [index_file |-> i, meta_file |-> m] :
      i \in {CachedOf(CatalogA).index_file, AbsentFile, CorruptFile},
      m \in {CachedOf(CatalogA).meta_file, AbsentFile, CorruptFile} } \ {NoCache}

\* what a query is answered from: the rows of the index and the template map
View(idx, tmap) == [vecs |-> idx.vecs, map |-> tmap]

NoSearch == [made |-> FALSE]

\* the view the last successful sync or the startup left, the number of sync
\* runs of this run of the program, the number of restarts, and the state of
\* the two cache files when initialize looked at them
IdxGhostInit ==
  [committed |-> View(NoIndex, <<>>), runs |-> 0, restarts |-> 0,
   boot |-> <<"absent", "absent">>]

IdxInit ==
  /\ index = NoIndex
  /\ templates = <<>>
  /\ template_map = <<>>
  /\ sync_count = 0
  /\ last_sync_time = 0
  /\ searches_performed = 0
  /\ matches_found = 0
  /\ disk = NoCache
  /\ idx_pc = "constructed"
  /\ sync_returned = "none"
  /\ search_out = NoSearch
  /\ idx_ghost = IdxGhostInit

\* a no-match result with a finite distance
NoMatchResultFinite ==
  [is_match |-> FALSE, employee_code |-> "None", template_id |-> "None",
   similarity |-> 0, distance |-> [inf |-> FALSE, value |-> 0], confidence |-> 0]

\* the MatchResult of an empty index, of no result, and of a raised exception
NoMatchResult ==
  [is_match |-> FALSE, employee_code |-> "None", template_id |-> "None",
   similarity |-> 0, distance |-> [inf |-> TRUE, value |-> 0], confidence |-> 0]

\* similarity >= self.similarity_threshold, on fixed-point similarities
IsMatch(sim) == sim * 10 >= similarity_threshold_tenths * Scale * Scale

\* a MatchResult that keeps the template id and leaves the person code out
MatchResultOfNoCode(template, sim) ==
  [is_match |-> IsMatch(sim),
   employee_code |-> "None",
   template_id |-> template.template_id,
   similarity |-> sim,
   distance |-> [inf |-> FALSE, value |-> Scale * Scale - sim],
   confidence |-> Min((sim * 1000) \div (similarity_threshold_tenths * Scale * Scale),
                      100)]

\* the MatchResult built at lines 345-353 (confidence in percent)
MatchResultOf(template, sim) ==
  [is_match |-> IsMatch(sim),
   employee_code |-> template.employee_code,
   template_id |-> template.template_id,
   similarity |-> sim,
   distance |-> [inf |-> FALSE, value |-> Scale * Scale - sim],
   confidence |-> Min((sim * 1000) \div (similarity_threshold_tenths * Scale * Scale),
                      100)]

\* IndexFlatIP.search: the rows in order of decreasing inner product (the lower
\* row first among equals), at most k of them
RECURSIVE RankRows(_, _, _)
RankRows(rows, sims, k) ==
  IF rows = {} \/ k = 0 THEN <<>>
  ELSE LET best == CHOOSE r \in rows :
                     \A o \in rows : sims[r] > sims[o] \/ (sims[r] = sims[o] /\ r <= o)
       IN <<best>> \o RankRows(rows \ {best}, sims, k - 1)

RECURSIVE CollectResults(_, _, _)
CollectResults(ranked, sims, tmap) ==
  IF ranked = <<>> THEN <<>>
  ELSE LET r == Head(ranked)
           rest == CollectResults(Tail(ranked), sims, tmap)
       IN IF (r - 1) \in DOMAIN tmap
          THEN <<MatchResultOf(tmap[r - 1], sims[r])>> \o rest
          ELSE rest

\* IndexSync.search_similar: the list of MatchResults it returns
SearchResults(idx, tmap, q, k) ==
  IF ~idx.exists \/ Len(idx.vecs) = 0 THEN <<NoMatchResult>>
  ELSE IF Len(q) # idx.d THEN <<NoMatchResult>>
  ELSE LET qn == Normalize(q)
           sims == [r \in DOMAIN idx.vecs |-> Dot(qn, idx.vecs[r], Len(qn))]
           res == CollectResults(RankRows(DOMAIN idx.vecs, sims, k), sims, tmap)
       IN IF res = <<>> THEN <<NoMatchResult>> ELSE res

\* matches_found is incremented once per matching result of the normal path
MatchesIn(idx, res) ==
  IF ~idx.exists \/ Len(idx.vecs) = 0 THEN 0
  ELSE Cardinality({ i \in DOMAIN res : res[i].is_match })

\* a cache left by an earlier run of the program
CacheLeftBehind(d) ==
  /\ idx_pc = "constructed"
  /\ disk = NoCache
  /\ disk' = d
  /\ search_out' = NoSearch
  /\ UNCHANGED <<now, plVars, trkVars, pubVars, index, templates, template_map, sync_count,
                 last_sync_time, searches_performed, matches_found, idx_pc,
                 sync_returned, idx_ghost>>

\* IndexSync.initialize up to the GET of its initial sync_with_backend()
IdxInitialize ==
  /\ idx_pc = "constructed"
  /\ LET st == LoadOrCreate(disk)
     IN /\ index' = st.index
        /\ templates' = st.templates
        /\ template_map' = st.template_map
        /\ idx_ghost' = [idx_ghost EXCEPT
                           !.committed = View(st.index, st.template_map),
                           !.runs = 1,
                           !.boot = <<disk.index_file.state, disk.meta_file.state>>]
  /\ idx_pc' = "get"
  /\ sync_returned' = "none"
  /\ search_out' = NoSearch
  /\ UNCHANGED <<now, plVars, trkVars, pubVars, sync_count, last_sync_time, searches_performed,
                 matches_found, disk>>

\* sync_with_backend returns False with nothing touched (lines 215-217)
SyncFetchFailed ==
  /\ sync_returned' = "false"
  /\ idx_pc' = "sleeping"
  /\ UNCHANGED <<index, templates, template_map, sync_count, last_sync_time, disk,
                 idx_ghost>>

\* the GET of _fetch_templates_from_backend is answered
SyncFetchAnswer(ans) ==
  /\ idx_pc = "get"
  /\ IF ans.kind = "status" /\ ans.status = 200
     THEN /\ idx_pc' = "json"
          /\ UNCHANGED <<index, templates, template_map, sync_count, last_sync_time,
                         disk, idx_ghost, sync_returned>>
     ELSE SyncFetchFailed
  /\ search_out' = NoSearch
  /\ UNCHANGED <<now, plVars, trkVars, pubVars, searches_performed, matches_found>>

\* response.json() is read: the rest of sync_with_backend (parse, rebuild,
\* bookkeeping, cache save) runs without suspending
SyncFetchBody(body, outcome) ==
  /\ idx_pc = "json"
  /\ LET parsed == ParseCatalog(body)
         r == RebuildIndex(parsed.templates)
     IN IF ~parsed.ok THEN SyncFetchFailed
        ELSE /\ index' = r.st.index
             /\ templates' = r.st.templates
             /\ template_map' = r.st.template_map
             /\ idx_pc' = "sleeping"
             /\ IF r.raised
                THEN /\ sync_returned' = "false"
                     /\ UNCHANGED <<sync_count, last_sync_time, disk, idx_ghost>>
                ELSE /\ sync_returned' = "true"
                     /\ last_sync_time' = now
                     /\ sync_count' = sync_count + 1
                     /\ disk' = SaveIndexCache(disk, r.st.index, r.st.templates,
                                               r.st.template_map, now, outcome)
                     /\ idx_ghost' = [idx_ghost EXCEPT !.committed =
                                        View(r.st.index, r.st.template_map)]
  /\ search_out' = NoSearch
  /\ UNCHANGED <<now, plVars, trkVars, pubVars, searches_performed, matches_found>>

\* a loop that gives up after a sync that returned False
LoopEndsOnFailure(returned) == returned # "false"

\* _background_sync_loop goes round again whatever sync_with_backend returned:
\* only CancelledError reaches the break
LoopGoesOn(returned) == TRUE

\* _background_sync_loop: the sleep is over, the next sync_with_backend starts
BackgroundSyncWithin(n) ==
  /\ idx_pc = "sleeping"
  /\ LoopGoesOn(sync_returned)
  /\ idx_ghost.runs < n
  /\ idx_pc' = "get"
  /\ sync_returned' = "none"
  /\ idx_ghost' = [idx_ghost EXCEPT !.runs = @ + 1]
  /\ search_out' = NoSearch
  /\ UNCHANGED <<now, plVars, trkVars, pubVars, index, templates, template_map, sync_count,
                 last_sync_time, searches_performed, matches_found, disk>>

BackgroundSync == BackgroundSyncWithin(MaxSyncs)

\* IndexSync.search_similar(embedding, k)
SearchSimilar(q, k) ==
  /\ searches_performed < MaxSearches
  /\ searches_performed' = searches_performed + 1
  /\ LET res == SearchResults(index, template_map, q, k)
     IN /\ matches_found' = matches_found + MatchesIn(index, res)
        /\ search_out' = [made |-> TRUE, results |-> res,
                          view |-> View(index, template_map),
                          query |-> q, k |-> k]
  /\ UNCHANGED <<now, plVars, trkVars, pubVars, index, templates, template_map, sync_count,
                 last_sync_time, disk, idx_pc, sync_returned, idx_ghost>>

\* the process ends without cleanup and the program is started again: a new
\* IndexSync is constructed, the cache files are what the old one left (the
\* files change only as a sync ends, so ending the process between two syncs
\* covers every cache a run can leave)
IdxRestart ==
  /\ idx_pc = "sleeping"
  /\ idx_ghost.restarts < MaxRestarts
  /\ index' = NoIndex
  /\ templates' = <<>>
  /\ template_map' = <<>>
  /\ sync_count' = 0
  /\ last_sync_time' = 0
  /\ searches_performed' = 0
  /\ matches_found' = 0
  /\ idx_pc' = "constructed"
  /\ sync_returned' = "none"
  /\ search_out' = NoSearch
  /\ idx_ghost' = [IdxGhostInit EXCEPT !.restarts = idx_ghost.restarts + 1]
  /\ UNCHANGED <<now, plVars, trkVars, pubVars, disk>>

IdxNext ==
  \/ \E d \in LeftBehindCaches : CacheLeftBehind(d)
  \/ IdxRestart
  \/ IdxInitialize
  \/ \E ans \in FetchAnswers : SyncFetchAnswer(ans)
  \/ \E body \in FetchBodies, outcome \in SaveOutcomes : SyncFetchBody(body, outcome)
  \/ BackgroundSync
  \/ \E q \in Queries, k \in TopKs : SearchSimilar(q, k)

\* one run of the process, from construction on, that is never ended
IdxRunNext ==
  \/ \E d \in LeftBehindCaches : CacheLeftBehind(d)
  \/ IdxInitialize
  \/ \E ans \in FetchAnswers : SyncFetchAnswer(ans)
  \/ \E body \in FetchBodies, outcome \in SaveOutcomes : SyncFetchBody(body, outcome)
  \/ BackgroundSync
  \/ \E q \in Queries, k \in TopKs : SearchSimilar(q, k)

\* one run that starts without a cache, its sync loop followed further
IdxLoopNext ==
  \/ IdxInitialize
  \/ \E ans \in FetchAnswers : SyncFetchAnswer(ans)
  \/ \E body \in FetchBodies, outcome \in SaveOutcomes : SyncFetchBody(body, outcome)
  \/ BackgroundSyncWithin(MaxLoopSyncs)
  \/ \E q \in Queries, k \in TopKs : SearchSimilar(q, k)

(***************************************************************************)
(* RecognitionPublisher                                                    *)
(*                                                                         *)
(* The two background workers and the callers of publish_recognition are   *)
(* asyncio tasks of one event loop: each action below is the code between  *)
(* two suspension points (an HTTP exchange, a sleep, a queue get).  The    *)
(* workers' sleeps and polls are not tied to the wall clock `now`: a sleep *)
(* may end at any later step.  Elapsed times the code compares are kept as *)
(* whole seconds relative to the instant they are measured from.           *)
(***************************************************************************)
batch_size == 2            \* config.publish_batch_size, scaled down from 10
batch_timeout == 1         \* config.publish_batch_timeout, scaled down from 5.0
max_retries == 2           \* config.publish_max_retries, scaled down from 3
offline_queue_size == 3    \* config.offline_queue_size, scaled down from 1000
MaxPublishCalls == 4       \* publish_recognition() calls explored
MaxDedupCalls == 3         \* of them, calls explored against the clock
MaxPubElapsed == 65        \* seconds of wall clock explored for publish calls
MaxRetryRounds == 1        \* offline retries explored while the backend may still fail

retry_delay == 1                 \* config.publish_retry_delay
dedup_window == 60               \* self.dedup_window
bucket_seconds == 10             \* the 10-second windows of _generate_event_hash
connection_check_interval == 30  \* self.connection_check_interval
retry_sleep == 30                \* asyncio.sleep(30.0) of _offline_retry_worker
poll_timeout == 1                \* wait_for(..., timeout=1.0) of _batch_worker

Devices == {"D1"}
Persons == {"E1", "E2"}      \* match_result.employee_code
\* the persons recognized one after the other while the workers are followed
PubPersons == <<"E1", "E2", "E3", "E4", "E5", "E6">>
PubTickSteps == {5, dedup_window}

Status(n) == [kind |-> "status", status |-> n]
\* what a POST to /api/recognitions may end in
PostAnswers == { Status(200), Status(204), Status(409), Status(400), Status(500),
                 [kind |-> "timeout", status |-> 0] }
\* what a GET of /actuator/health may end in
HealthAnswers == { Status(200), Status(503), [kind |-> "error", status |-> 0] }

Workers == {"bw", "rw"}      \* _batch_worker, _offline_retry_worker
\* every caller of _send_batch: the two workers and _flush_pending_events
Senders == Workers \union {"cl"}

\* RecognitionEvent: the fields the publisher reads
Event(id, dev, emp, t) ==
  [event_id |-> id, device_code |-> dev, employee_code |-> emp, timestamp |-> t]

\* _generate_event_hash without the timestamp: "device:employee"
GenerateEventHashNoBucket(event) ==
  <<event.device_code, event.employee_code>>

\* _generate_event_hash with the timestamp left unrounded
GenerateEventHashUnrounded(event) ==
  <<event.device_code, event.employee_code, event.timestamp>>

\* _generate_event_hash: "device:employee:int(timestamp / 10) * 10"
GenerateEventHash(event) ==
  <<event.device_code, event.employee_code,
    (event.timestamp \div bucket_seconds) * bucket_seconds>>

\* the duplicate test of publish_recognition (lines 201-203)
IsDuplicate(recent, h, t) == h \in DOMAIN recent /\ t - recent[h] < dedup_window

\* self.recent_events[event_hash] = current_time
Record(recent, h, t) == [k \in DOMAIN recent \cup {h} |-> IF k = h THEN t ELSE recent[k]]

\* _cleanup_dedup_cache
CleanupDedupCache(recent, t) ==
  Restrict(recent, { h \in DOMAIN recent : recent[h] > t - dedup_window })

\* _send_with_retries: the answers it returns True on
IsSuccessStatus(ans) ==
  ans.kind = "status" /\ (ans.status \in {200, 201, 202} \/ ans.status = 409)

\* _send_with_retries: whether it sleeps and posts again after this answer
ShouldRetry(ans, attempt) ==
  IF ans.kind = "status" THEN attempt < max_retries /\ ans.status >= 500
  ELSE attempt < max_retries

\* a backoff that does not grow
RetryDelayFixed(attempt) == retry_delay

\* delay = self.retry_delay * (2 ** attempt)
RetryDelay(attempt) == retry_delay * (2 ^ attempt)

\* _queue_offline_events relying on deque(maxlen=...): the oldest events fall out
QueueOfflineEventsDropOldest(queue, events) ==
  LET all == queue \o events
  IN SubSeq(all, Max(1, Len(all) - offline_queue_size + 1), Len(all))

\* _queue_offline_events keeping a batch only when all of it fits
QueueOfflineEventsWhole(queue, events) ==
  IF Len(queue) + Len(events) <= offline_queue_size THEN queue \o events ELSE queue

\* _queue_offline_events: the offline queue after the loop
RECURSIVE QueueOfflineEvents(_, _)
QueueOfflineEvents(queue, events) ==
  IF events = <<>> THEN queue
  ELSE IF Len(queue) < offline_queue_size
       THEN QueueOfflineEvents(Append(queue, Head(events)), Tail(events))
       ELSE QueueOfflineEvents(queue, Tail(events))

\* _check_backend_connectivity reading the probe as failed whatever it answers
HealthOkNever(ans) == FALSE

\* self.backend_available = response.status == 200 (False when the GET raises)
HealthOk(ans) == ans.kind = "status" /\ ans.status = 200

\* should_send of _batch_worker
ShouldSend(batch, elapsed) ==
  Len(batch) >= batch_size \/ (Len(batch) > 0 /\ elapsed >= batch_timeout)

EventIds(events) == { events[i].event_id : i \in DOMAIN events }

IdleSend == [pc |-> "idle", events |-> <<>>, attempt |-> 0, delay |-> 0]
\* _send_batch entered with these events: the first POST is in flight
FirstPost(events) == [pc |-> "post", events |-> events, attempt |-> 0, delay |-> 0]

NoOp == [kind |-> "none"]

\* the answers the backend gives in each of its modes
PostAnswersIn(mode) == IF mode = "ok" THEN {Status(200)} ELSE PostAnswers
HealthAnswersIn(mode) == IF mode = "ok" THEN {Status(200)} ELSE HealthAnswers

PubGhostInit ==
  [calls |-> 0, accepted |-> 0, keys |-> <<>>, only_500 |-> TRUE,
   batch_age |-> 0, rounds |-> 0, ok_backlog |-> 0, ok_ticks |-> 0,
   cl_pending |-> {}, cl_sent |-> {}, cl_delivered |-> {}]

PubInit ==
  /\ pub_pc = "constructed"
  /\ publish_queue = <<>>
  /\ offline_queue = <<>>
  /\ recent_events = <<>>
  /\ events_published = 0
  /\ events_failed = 0
  /\ events_deduplicated = 0
  /\ offline_events = 0
  /\ batches_sent = 0
  /\ backend_available = TRUE
  /\ since_conn_check = connection_check_interval
  /\ bw_pc = "off"
  /\ bw_batch = <<>>
  /\ bw_elapsed = 0
  /\ rw_pc = "off"
  /\ send = [w \in Senders |-> IdleSend]
  /\ backend_mode = "any"
  /\ pub_last = NoOp
  /\ pub_ghost = PubGhostInit

\* RecognitionPublisher.initialize up to the GET of _check_backend_connectivity
\* (last_connection_check is 0.0, so the probe is not skipped)
PubInitialize ==
  /\ pub_pc = "constructed"
  /\ since_conn_check >= connection_check_interval
  /\ pub_pc' = "probing"
  /\ since_conn_check' = 0
  /\ pub_last' = NoOp
  /\ UNCHANGED <<now, plVars, trkVars, idxVars, publish_queue, offline_queue, recent_events,
                 events_published, events_failed, events_deduplicated, offline_events,
                 batches_sent, backend_available, bw_pc, bw_batch, bw_elapsed, rw_pc,
                 send, backend_mode, pub_ghost>>

\* the probe is answered: initialize creates the queue and starts both workers
InitProbeResponse(ans) ==
  /\ pub_pc = "probing"
  /\ backend_available' = HealthOk(ans)
  /\ publish_queue' = <<>>
  /\ bw_pc' = "poll"
  /\ bw_batch' = <<>>
  /\ bw_elapsed' = 0
  /\ rw_pc' = "sleeping"
  /\ pub_pc' = "running"
  /\ pub_last' = NoOp
  /\ UNCHANGED <<now, plVars, trkVars, idxVars, offline_queue, recent_events, events_published,
                 events_failed, events_deduplicated, offline_events, batches_sent,
                 since_conn_check, send, backend_mode, pub_ghost>>

\* publish_recognition(device_code, match_result, ...), called by the pipeline
\* once the publisher is initialized
Publish(dev, emp) ==
  /\ pub_pc = "running"
  /\ pub_ghost.calls < MaxPublishCalls
  /\ LET event == Event(pub_ghost.calls + 1, dev, emp, now)
         event_hash == GenerateEventHash(event)
         dup == IsDuplicate(recent_events, event_hash, now)
         key == <<dev, emp, now \div bucket_seconds>>
         old == IF key \in DOMAIN pub_ghost.keys THEN pub_ghost.keys[key]
                ELSE [calls |-> 0, queued |-> 0, first |-> now, last |-> now]
         new == [calls |-> old.calls + 1,
                 queued |-> old.queued + (IF dup THEN 0 ELSE 1),
                 first |-> old.first, last |-> now]
     IN /\ IF dup
           THEN /\ events_deduplicated' = events_deduplicated + 1
                /\ UNCHANGED <<recent_events, publish_queue>>
           ELSE /\ recent_events' =
                     CleanupDedupCache(Record(recent_events, event_hash, now), now)
                /\ publish_queue' = Append(publish_queue, event)
                /\ UNCHANGED events_deduplicated
        /\ pub_last' = [kind |-> "publish", returned |-> TRUE, enqueued |-> ~dup]
        /\ pub_ghost' = [pub_ghost EXCEPT !.calls = @ + 1,
                                          !.accepted = @ + (IF dup THEN 0 ELSE 1),
                                          !.keys = Record(@, key, new)]
  /\ UNCHANGED <<now, plVars, trkVars, idxVars, pub_pc, offline_queue, events_published,
                 events_failed, offline_events, batches_sent, backend_available,
                 since_conn_check, bw_pc, bw_batch, bw_elapsed, rw_pc, send,
                 backend_mode>>

\* wall-clock time passes between publish calls
PubTick(d) ==
  /\ pub_pc = "running"
  /\ now + d <= StartTime + MaxPubElapsed
  /\ now' = now + d
  /\ pub_last' = NoOp
  /\ UNCHANGED <<plVars, trkVars, idxVars, pub_pc, publish_queue, offline_queue, recent_events,
                 events_published, events_failed, events_deduplicated, offline_events,
                 batches_sent, backend_available, since_conn_check, bw_pc, bw_batch,
                 bw_elapsed, rw_pc, send, backend_mode, pub_ghost>>

\* _batch_worker after its queue get returned or timed out (lines 264-279, up to
\* the first POST of _send_batch)
BWStep(batch, elapsed, age) ==
  /\ bw_batch' = batch
  /\ pub_ghost' = [pub_ghost EXCEPT !.batch_age = age]
  /\ IF ShouldSend(batch, elapsed)
     THEN /\ send' = [send EXCEPT !["bw"] = FirstPost(batch)]
          /\ bw_pc' = "sending"
          /\ bw_elapsed' = 0
     ELSE /\ bw_elapsed' = elapsed
          /\ UNCHANGED <<send, bw_pc>>
  /\ pub_last' = NoOp
  /\ UNCHANGED <<now, plVars, trkVars, idxVars, pub_pc, offline_queue, recent_events,
                 events_published, events_failed, events_deduplicated, offline_events,
                 batches_sent, backend_available, since_conn_check, rw_pc,
                 backend_mode>>

\* the queue get returns an event (having waited less than a second)
BWGetEvent ==
  /\ bw_pc = "poll"
  /\ publish_queue # <<>>
  /\ publish_queue' = Tail(publish_queue)
  /\ BWStep(Append(bw_batch, Head(publish_queue)), bw_elapsed,
            IF bw_batch = <<>> THEN 0 ELSE pub_ghost.batch_age)

\* the queue get times out
BWPollTimeout ==
  /\ bw_pc = "poll"
  /\ publish_queue = <<>>
  /\ UNCHANGED publish_queue
  /\ BWStep(bw_batch, Min(bw_elapsed + poll_timeout, batch_timeout),
            IF bw_batch = <<>> THEN 0
            ELSE Min(pub_ghost.batch_age + poll_timeout, batch_timeout))

\* the loop of the worker whose _send_batch() returned goes on
WorkerResumes(w) ==
  IF w = "bw"
  THEN /\ bw_pc' = IF bw_pc = "final" THEN "done" ELSE "poll"
       /\ bw_batch' = <<>>
       /\ UNCHANGED <<rw_pc, pub_pc>>
  ELSE IF w = "rw"
  THEN /\ rw_pc' = "sleeping"
       /\ UNCHANGED <<bw_pc, bw_batch, pub_pc>>
  ELSE /\ pub_pc' = "closed"
       /\ UNCHANGED <<bw_pc, bw_batch, rw_pc>>

\* a POST of _send_with_retries is answered (or times out, or raises); when the
\* loop ends, the rest of _send_batch runs in the same step
PostResponse(w, ans) ==
  /\ send[w].pc = "post"
  /\ LET s == send[w]
     IN /\ pub_last' = [kind |-> "post", w |-> w, ans |-> ans, attempt |-> s.attempt,
                        events |-> s.events]
        /\ pub_ghost' = [pub_ghost EXCEPT
                           !.only_500 = @ /\ ans = Status(500),
                           !.batch_age = IF w = "bw" /\ (IsSuccessStatus(ans)
                                                          \/ ~ShouldRetry(ans, s.attempt))
                                         THEN 0 ELSE @,
                           !.cl_delivered = IF pub_pc # "running" /\ IsSuccessStatus(ans)
                                            THEN @ \union EventIds(s.events) ELSE @]
        /\ IF IsSuccessStatus(ans)
           THEN /\ events_published' = events_published + Len(s.events)
                /\ batches_sent' = batches_sent + 1
                /\ backend_available' = TRUE
                /\ send' = [send EXCEPT ![w] = IdleSend]
                /\ WorkerResumes(w)
                /\ UNCHANGED <<offline_queue, offline_events, events_failed>>
           ELSE IF ShouldRetry(ans, s.attempt)
           THEN /\ send' = [send EXCEPT ![w] = [s EXCEPT !.pc = "backoff",
                                                         !.delay = RetryDelay(s.attempt)]]
                /\ UNCHANGED <<events_published, batches_sent, backend_available,
                               offline_queue, offline_events, events_failed, bw_pc,
                               bw_batch, rw_pc, pub_pc>>
           ELSE /\ offline_queue' = QueueOfflineEvents(offline_queue, s.events)
                /\ offline_events' = offline_events
                                       + (Len(offline_queue') - Len(offline_queue))
                /\ events_failed' = events_failed + Len(s.events)
                /\ backend_available' = FALSE
                /\ send' = [send EXCEPT ![w] = IdleSend]
                /\ WorkerResumes(w)
                /\ UNCHANGED <<events_published, batches_sent>>
  /\ UNCHANGED <<now, plVars, trkVars, idxVars, publish_queue, recent_events,
                 events_deduplicated, since_conn_check, bw_elapsed, backend_mode>>

\* asyncio.sleep(delay) of _send_with_retries is over: the next POST goes out
BackoffWake(w) ==
  /\ send[w].pc = "backoff"
  /\ send' = [send EXCEPT ![w] = [@ EXCEPT !.pc = "post", !.attempt = @ + 1,
                                           !.delay = 0]]
  /\ bw_elapsed' = IF w = "bw" THEN Min(bw_elapsed + send[w].delay, batch_timeout)
                   ELSE bw_elapsed
  /\ pub_last' = NoOp
  /\ UNCHANGED <<now, plVars, trkVars, idxVars, pub_pc, publish_queue, offline_queue,
                 recent_events, events_published, events_failed, events_deduplicated,
                 offline_events, batches_sent, backend_available, since_conn_check,
                 bw_pc, bw_batch, rw_pc, backend_mode, pub_ghost>>

\* RecognitionPublisher.cleanup up to its first await: the batch worker is
\* cancelled wherever it is suspended (in the queue get, in a POST or in a
\* backoff sleep) and its handler sends what its batch holds, from attempt 0
PubCleanup ==
  /\ pub_pc = "running"
  /\ pub_pc' = "cleanup_bw"
  /\ IF bw_batch # <<>>
     THEN /\ bw_pc' = "final"
          /\ send' = [send EXCEPT !["bw"] = FirstPost(bw_batch)]
     ELSE /\ bw_pc' = "done"
          /\ send' = [send EXCEPT !["bw"] = IdleSend]
  /\ pub_ghost' = [pub_ghost EXCEPT
                     !.cl_pending = EventIds(publish_queue) \union EventIds(bw_batch),
                     !.cl_sent = EventIds(bw_batch),
                     !.cl_delivered = {}]
  /\ pub_last' = NoOp
  /\ UNCHANGED <<now, plVars, trkVars, idxVars, publish_queue, offline_queue, recent_events,
                 events_published, events_failed, events_deduplicated, offline_events,
                 batches_sent, backend_available, since_conn_check, bw_batch,
                 bw_elapsed, rw_pc, backend_mode>>

\* cleanup once the batch worker's task is done: the offline-retry worker is
\* cancelled (a batch it popped and was sending is gone with it), then
\* _flush_pending_events drains the publish queue into one _send_batch
PubCleanupFlush ==
  /\ pub_pc = "cleanup_bw"
  /\ bw_pc = "done"
  /\ rw_pc' = "done"
  /\ publish_queue' = <<>>
  /\ IF publish_queue # <<>>
     THEN /\ send' = [send EXCEPT !["rw"] = IdleSend, !["cl"] = FirstPost(publish_queue)]
          /\ pub_pc' = "flushing"
     ELSE /\ send' = [send EXCEPT !["rw"] = IdleSend]
          /\ pub_pc' = "closed"
  /\ pub_ghost' = [pub_ghost EXCEPT !.cl_sent = @ \union EventIds(publish_queue)]
  /\ pub_last' = NoOp
  /\ UNCHANGED <<now, plVars, trkVars, idxVars, offline_queue, recent_events, events_published,
                 events_failed, events_deduplicated, offline_events, batches_sent,
                 backend_available, since_conn_check, bw_pc, bw_batch, bw_elapsed,
                 backend_mode>>

\* _offline_retry_worker once _check_backend_connectivity has returned
\* (lines 413-426, up to the first POST of _send_batch)
RWAfterCheck(available) ==
  IF available /\ offline_queue # <<>>
  THEN LET n == Min(batch_size, Len(offline_queue))
       IN /\ offline_queue' = SubSeq(offline_queue, n + 1, Len(offline_queue))
          /\ send' = [send EXCEPT !["rw"] = FirstPost(SubSeq(offline_queue, 1, n))]
          /\ rw_pc' = "sending"
          /\ pub_ghost' = [pub_ghost EXCEPT
                             !.rounds = IF backend_mode = "ok" THEN @ ELSE @ + 1,
                             !.ok_ticks = IF backend_mode = "ok" THEN @ + 1 ELSE @]
  ELSE /\ rw_pc' = "sleeping"
       /\ UNCHANGED <<offline_queue, send, pub_ghost>>

\* asyncio.sleep(30.0) of _offline_retry_worker is over
RWWake ==
  /\ rw_pc = "sleeping"
  \* cleanup, resumed by the end of the batch worker's task, cancels this worker
  \* before the loop gets to a sleep that ends afterwards
  /\ ~(pub_pc = "cleanup_bw" /\ bw_pc = "done")
  /\ backend_mode = "any" => pub_ghost.rounds < MaxRetryRounds
  /\ LET since == Min(since_conn_check + retry_sleep, connection_check_interval)
     IN IF offline_queue = <<>>
        THEN /\ since_conn_check' = since
             /\ UNCHANGED <<rw_pc, offline_queue, send, pub_ghost>>
        ELSE IF since < connection_check_interval
        THEN /\ since_conn_check' = since
             /\ RWAfterCheck(backend_available)
        ELSE /\ since_conn_check' = 0
             /\ rw_pc' = "probe"
             /\ UNCHANGED <<offline_queue, send, pub_ghost>>
  /\ pub_last' = NoOp
  /\ UNCHANGED <<now, plVars, trkVars, idxVars, pub_pc, publish_queue, recent_events,
                 events_published, events_failed, events_deduplicated, offline_events,
                 batches_sent, backend_available, bw_pc, bw_batch, bw_elapsed,
                 backend_mode>>

\* the health probe of the offline-retry worker is answered
RWProbeResponse(ans) ==
  /\ rw_pc = "probe"
  /\ backend_available' = HealthOk(ans)
  /\ RWAfterCheck(HealthOk(ans))
  /\ pub_last' = NoOp
  /\ UNCHANGED <<now, plVars, trkVars, idxVars, pub_pc, publish_queue, recent_events,
                 events_published, events_failed, events_deduplicated, offline_events,
                 batches_sent, since_conn_check, bw_pc, bw_batch, bw_elapsed,
                 backend_mode>>

\* from here on the backend answers 200 to the health probe and to every POST
BackendRecovers ==
  /\ pub_pc = "running"
  /\ backend_mode = "any"
  /\ backend_mode' = "ok"
  /\ pub_ghost' = [pub_ghost EXCEPT !.ok_backlog = Len(offline_queue), !.ok_ticks = 0]
  /\ pub_last' = NoOp
  /\ UNCHANGED <<now, plVars, trkVars, idxVars, pub_pc, publish_queue, offline_queue,
                 recent_events, events_published, events_failed, events_deduplicated,
                 offline_events, batches_sent, backend_available, since_conn_check,
                 bw_pc, bw_batch, bw_elapsed, rw_pc, send>>

\* publish calls against the clock (the workers are not scheduled)
DedupNext ==
  \/ PubInitialize
  \/ \E ans \in HealthAnswers : InitProbeResponse(ans)
  \/ \E dev \in Devices, emp \in Persons :
        /\ pub_ghost.calls < MaxDedupCalls
        /\ Publish(dev, emp)
  \/ \E d \in PubTickSteps : PubTick(d)

\* the publisher with its two workers and the backend; the events published are
\* distinct (one person after the other)
PubNext ==
  \/ PubInitialize
  \/ \E ans \in HealthAnswersIn(backend_mode) : InitProbeResponse(ans)
  \/ \E dev \in Devices :
        /\ pub_ghost.calls < Len(PubPersons)
        /\ Publish(dev, PubPersons[pub_ghost.calls + 1])
  \/ BWGetEvent
  \/ BWPollTimeout
  \/ \E w \in Workers, ans \in PostAnswersIn(backend_mode) : PostResponse(w, ans)
  \/ \E w \in Workers : BackoffWake(w)
  \/ RWWake
  \/ \E ans \in HealthAnswersIn(backend_mode) : RWProbeResponse(ans)
  \/ BackendRecovers

(***************************************************************************)
(* FaceRecognitionPipeline: life cycle (face_recognition_pipeline.py)      *)
(***************************************************************************)
MaxTasks == 3            \* frame-loop tasks created by start()
MaxLifecycleCalls == 4   \* start() and stop() calls made by the owner

\* the components list of initialize, in its order
ComponentOrder ==
  <<"rtsp_reader", "face_detector", "embedding_extractor", "liveness_detector",
    "face_tracker", "index_sync", "snapshot_uploader", "recognition_publisher">>

ComponentNames == { ComponentOrder[i] : i \in DOMAIN ComponentOrder }

\* the list cleanup walks to collect the component cleanups, in its order
CleanupOrder ==
  <<"recognition_publisher", "snapshot_uploader", "index_sync", "rtsp_reader">>

CleanupNames == { CleanupOrder[i] : i \in DOMAIN CleanupOrder }

\* how an _init_* step can end: the component's initialize() returns True or
\* False, or the constructor raises; _init_face_tracker never returns False
InitOutcomesOf(c) ==
  IF c = "face_tracker" THEN {"ok", "raises"} ELSE {"ok", "false", "raises"}

\* how the first run of a component's cleanup() can end: it suspends on an
\* await, returns, or raises; RTSPReader.cleanup has no await to suspend on
CleanupBeginOutcomesOf(c) ==
  IF c = "rtsp_reader" THEN {"ok", "raised"} ELSE {"suspends", "ok", "raised"}

CleanupEndOutcomes == {"ok", "raised"}

PosIn(seq, c) == CHOOSE i \in DOMAIN seq : seq[i] = c

\* a start that goes on whatever self.running says
StartIsNoOpNever(is_running) == FALSE

\* "if self.running: ... return" of start
StartIsNoOp(is_running) == is_running

\* "if not self.running: ... return" of stop
StopIsNoOp(is_running) == ~is_running

\* the coroutines cleanup hands to asyncio.gather: one per component of the
\* list that is not None
GatheredCleanups(comps, cl) ==
  [c \in CleanupNames |-> IF comps[c] # "none" THEN "pending" ELSE cl[c]]

\* a variant of gather's wait that ends at the first failure
GatherDoneFirstFailure(cl) ==
  \/ \E c \in CleanupNames : cl[c] = "raised"
  \/ \A c \in CleanupNames : cl[c] \in {"idle", "ok"}

\* asyncio.gather(*cleanup_tasks, return_exceptions=True) resumes its caller
\* when every one of its coroutines has returned or raised
GatherDone(cl) == \A c \in CleanupNames : cl[c] \in {"idle", "ok", "raised"}

TaskAlive(t) == pl_tasks[t] # "done"

CancelPending == \E t \in DOMAIN pl_tasks : pl_tasks[t] = "cancelling"

\* history of the frame loop: frames passed to _process_frame, those in which
\* detect_faces raised, the number of the last frame in which an exception was
\* raised, when the recognition work (liveness first) last started for each
\* track, whether it started for a track less than recognition_interval
\* seconds after it had last started for that track, and, for the tracks of the
\* recognition step just made, the inputs and how _process_recognition_track
\* ended
FrmGhostInit ==
  [ handled |-> 0, detect_faults |-> 0, raised_in |-> 0, attempt_at |-> <<>>,
    regap |-> FALSE, cycle |-> <<>> ]

NoPlOp == [op |-> "none"]

PlInit ==
  /\ running = FALSE
  /\ pipeline_task = 0
  /\ pl_tasks = <<>>
  /\ components = [c \in ComponentNames |-> "none"]
  /\ init_pc = "new"
  /\ init_step = 1
  /\ cleanup_pc = "idle"
  /\ cleanups = [c \in CleanupNames |-> "idle"]
  /\ stop_waiting = {}
  /\ pl_calls = 0
  /\ pl_last = NoPlOp
  /\ frame_pc = "waiting"
  /\ pl_frames_processed = 0
  /\ faces_detected = 0
  /\ faces_recognized = 0
  /\ recognitions_published = 0
  /\ frm_ghost = FrmGhostInit

\* the body of cleanup after "await self.stop()": the cleanups are collected
\* and handed to gather; with none to run, cleanup returns at once
CleanupGather(returns_to_initialize) ==
  LET gathered == GatheredCleanups(components, cleanups)
  IN IF \E c \in CleanupNames : gathered[c] = "pending"
     THEN /\ cleanups' = gathered
          /\ cleanup_pc' = "gathering"
          /\ pl_last' = NoPlOp
          /\ init_pc' = IF returns_to_initialize THEN "unwinding" ELSE init_pc
     ELSE /\ cleanup_pc' = "done"
          /\ UNCHANGED cleanups
          /\ IF returns_to_initialize
             THEN /\ init_pc' = "returned_false"
                  /\ pl_last' = [op |-> "initialize", returned |-> FALSE]
             ELSE /\ pl_last' = [op |-> "cleanup"]
                  /\ UNCHANGED init_pc

\* initialize is called and reaches the await of the first _init_* step
PlInitialize ==
  /\ init_pc = "new"
  /\ init_pc' = "steps"
  /\ pl_last' = NoPlOp
  /\ UNCHANGED <<now, trkVars, idxVars, pubVars, frmVars, running, pipeline_task, pl_tasks,
                 components, init_step, cleanup_pc, cleanups, stop_waiting, pl_calls>>

\* one _init_* step of initialize ends, and initialize runs on to its next
\* await or to its return
PlInitStep(outcome) ==
  /\ init_pc = "steps"
  /\ LET c == ComponentOrder[init_step]
     IN /\ outcome \in InitOutcomesOf(c)
        /\ IF outcome = "ok"
           THEN /\ components' = [components EXCEPT ![c] = "initialized"]
                /\ IF init_step = Len(ComponentOrder)
                   THEN /\ init_pc' = "returned_true"
                        /\ pl_last' = [op |-> "initialize", returned |-> TRUE]
                        /\ UNCHANGED init_step
                   ELSE /\ init_step' = init_step + 1
                        /\ pl_last' = NoPlOp
                        /\ UNCHANGED init_pc
                /\ UNCHANGED <<cleanup_pc, cleanups>>
           ELSE IF outcome = "false"
           THEN /\ components' = [components EXCEPT ![c] = "failed"]
                /\ init_pc' = "returned_false"
                /\ pl_last' = [op |-> "initialize", returned |-> FALSE]
                /\ UNCHANGED <<init_step, cleanup_pc, cleanups>>
           ELSE \* the except branch: cleanup, whose stop() finds running False
                /\ CleanupGather(TRUE)
                /\ UNCHANGED <<components, init_step>>
  /\ UNCHANGED <<now, trkVars, idxVars, pubVars, frmVars, running, pipeline_task, pl_tasks,
                 stop_waiting, pl_calls>>

\* start()
PlStart ==
  /\ init_pc = "returned_true"
  /\ cleanup_pc = "idle"
  /\ pl_calls < MaxLifecycleCalls
  /\ pl_calls' = pl_calls + 1
  /\ IF StartIsNoOp(running)
     THEN /\ pl_last' = [op |-> "start", noop |-> TRUE]
          /\ UNCHANGED <<running, pipeline_task, pl_tasks>>
     ELSE /\ Len(pl_tasks) < MaxTasks
          /\ running' = TRUE
          /\ pl_tasks' = Append(pl_tasks, "waiting")
          /\ pipeline_task' = Len(pl_tasks) + 1
          /\ pl_last' = [op |-> "start", noop |-> FALSE]
  /\ UNCHANGED <<now, trkVars, idxVars, pubVars, frmVars, components, init_pc, init_step,
                 cleanup_pc, cleanups, stop_waiting>>

\* stop() up to "await self.pipeline_task", or to its return when there is
\* nothing to wait for
PlStop ==
  /\ init_pc = "returned_true"
  /\ cleanup_pc = "idle"
  /\ pl_calls < MaxLifecycleCalls
  /\ pl_calls' = pl_calls + 1
  /\ IF StopIsNoOp(running)
     THEN /\ pl_last' = [op |-> "stop", noop |-> TRUE]
          /\ UNCHANGED <<running, pl_tasks, stop_waiting>>
     ELSE /\ running' = FALSE
          /\ pl_last' = [op |-> "stop", noop |-> FALSE]
          /\ IF pipeline_task # 0 /\ TaskAlive(pipeline_task)
             THEN /\ pl_tasks' = [pl_tasks EXCEPT ![pipeline_task] = "cancelling"]
                  /\ stop_waiting' = stop_waiting \union {pipeline_task}
             ELSE UNCHANGED <<pl_tasks, stop_waiting>>
  /\ UNCHANGED <<now, trkVars, idxVars, pubVars, frmVars, pipeline_task, components, init_pc,
                 init_step, cleanup_pc, cleanups>>

\* the task a stop() call awaits is done: the call returns
PlStopReturns(t) ==
  /\ t \in stop_waiting
  /\ ~TaskAlive(t)
  /\ stop_waiting' = stop_waiting \ {t}
  /\ pl_last' = NoPlOp
  /\ UNCHANGED <<now, trkVars, idxVars, pubVars, frmVars, running, pipeline_task, pl_tasks,
                 components, init_pc, init_step, cleanup_pc, cleanups, pl_calls>>

\* _pipeline_loop receives a frame: it leaves the loop when running is False
\* and enters _process_frame otherwise.  The event loop runs callbacks in the
\* order they were scheduled, so a task cancelled earlier ends first.
TaskNextFrame(t) ==
  /\ t \in DOMAIN pl_tasks
  /\ pl_tasks[t] = "waiting"
  /\ ~CancelPending
  /\ pl_tasks' = [pl_tasks EXCEPT ![t] = IF running THEN "in_frame" ELSE "done"]
  /\ pl_last' = NoPlOp
  /\ UNCHANGED <<now, trkVars, idxVars, pubVars, frmVars, running, pipeline_task, components,
                 init_pc, init_step, cleanup_pc, cleanups, stop_waiting, pl_calls>>

\* _process_frame returns (its tracker update and its publish calls are over)
TaskFrameDone(t) ==
  /\ t \in DOMAIN pl_tasks
  /\ pl_tasks[t] = "in_frame"
  /\ pl_tasks' = [pl_tasks EXCEPT ![t] = "waiting"]
  /\ pl_last' = NoPlOp
  /\ UNCHANGED <<now, trkVars, idxVars, pubVars, frmVars, running, pipeline_task, components,
                 init_pc, init_step, cleanup_pc, cleanups, stop_waiting, pl_calls>>

\* read_frames ends (the source is over or cannot be opened) or raises:
\* _pipeline_loop returns and leaves running as it is
TaskEnds(t) ==
  /\ t \in DOMAIN pl_tasks
  /\ pl_tasks[t] = "waiting"
  /\ ~CancelPending
  /\ pl_tasks' = [pl_tasks EXCEPT ![t] = "done"]
  /\ pl_last' = NoPlOp
  /\ UNCHANGED <<now, trkVars, idxVars, pubVars, frmVars, running, pipeline_task, components,
                 init_pc, init_step, cleanup_pc, cleanups, stop_waiting, pl_calls>>

\* CancelledError reaches _pipeline_loop, which logs it and returns
TaskCancelled(t) ==
  /\ t \in DOMAIN pl_tasks
  /\ pl_tasks[t] = "cancelling"
  /\ \A u \in 1..(t - 1) : pl_tasks[u] # "cancelling"   \* cancelled earlier, ends earlier
  /\ pl_tasks' = [pl_tasks EXCEPT ![t] = "done"]
  /\ pl_last' = NoPlOp
  /\ UNCHANGED <<now, trkVars, idxVars, pubVars, frmVars, running, pipeline_task, components,
                 init_pc, init_step, cleanup_pc, cleanups, stop_waiting, pl_calls>>

\* cleanup() called by the owner (main.py), up to its first await
PlCleanup ==
  /\ init_pc \in {"returned_true", "returned_false"}
  /\ cleanup_pc = "idle"
  /\ stop_waiting = {}    \* EdgeService.cleanup awaits its stop() before this call
  /\ IF ~StopIsNoOp(running) /\ pipeline_task # 0 /\ TaskAlive(pipeline_task)
     THEN /\ running' = FALSE
          /\ pl_tasks' = [pl_tasks EXCEPT ![pipeline_task] = "cancelling"]
          /\ cleanup_pc' = "stopping"
          /\ pl_last' = NoPlOp
          /\ UNCHANGED <<cleanups, init_pc>>
     ELSE /\ running' = FALSE
          /\ CleanupGather(FALSE)
          /\ UNCHANGED pl_tasks
  /\ UNCHANGED <<now, trkVars, idxVars, pubVars, frmVars, pipeline_task, components, init_step,
                 stop_waiting, pl_calls>>

\* the frame-loop task that cleanup's stop() awaits is done: cleanup goes on
PlCleanupAfterStop ==
  /\ cleanup_pc = "stopping"
  /\ ~TaskAlive(pipeline_task)
  /\ CleanupGather(FALSE)
  /\ UNCHANGED <<now, trkVars, idxVars, pubVars, frmVars, running, pipeline_task, pl_tasks,
                 components, init_step, stop_waiting, pl_calls>>

\* gather's task for one component cleanup runs for the first time; the tasks
\* start in the order of the list
CompCleanupBegin(c, outcome) ==
  /\ cleanup_pc = "gathering"
  /\ cleanups[c] = "pending"
  /\ \A i \in 1..(PosIn(CleanupOrder, c) - 1) : cleanups[CleanupOrder[i]] # "pending"
  /\ outcome \in CleanupBeginOutcomesOf(c)
  /\ cleanups' = [cleanups EXCEPT ![c] = IF outcome = "suspends" THEN "running"
                                          ELSE outcome]
  /\ pl_last' = [op |-> "cleanup_begin", component |-> c]
  /\ UNCHANGED <<now, trkVars, idxVars, pubVars, frmVars, running, pipeline_task, pl_tasks,
                 components, init_pc, init_step, cleanup_pc, stop_waiting, pl_calls>>

\* a suspended component cleanup is resumed and returns or raises
CompCleanupEnd(c, outcome) ==
  /\ cleanup_pc = "gathering"
  /\ cleanups[c] = "running"
  /\ cleanups' = [cleanups EXCEPT ![c] = outcome]
  /\ pl_last' = NoPlOp
  /\ UNCHANGED <<now, trkVars, idxVars, pubVars, frmVars, running, pipeline_task, pl_tasks,
                 components, init_pc, init_step, cleanup_pc, stop_waiting, pl_calls>>

\* gather returns its list of results: cleanup returns, and with it the
\* initialize whose except branch called it
PlCleanupReturns ==
  /\ cleanup_pc = "gathering"
  /\ GatherDone(cleanups)
  /\ cleanup_pc' = "done"
  /\ IF init_pc = "unwinding"
     THEN /\ init_pc' = "returned_false"
          /\ pl_last' = [op |-> "initialize", returned |-> FALSE]
     ELSE /\ pl_last' = [op |-> "cleanup"]
          /\ UNCHANGED init_pc
  /\ UNCHANGED <<now, trkVars, idxVars, pubVars, frmVars, running, pipeline_task, pl_tasks,
                 components, init_step, cleanups, stop_waiting, pl_calls>>

PlNext ==
  \/ PlInitialize
  \/ \E outcome \in {"ok", "false", "raises"} : PlInitStep(outcome)
  \/ PlStart
  \/ PlStop
  \/ \E t \in DOMAIN pl_tasks : PlStopReturns(t)
  \/ \E t \in DOMAIN pl_tasks : TaskNextFrame(t)
  \/ \E t \in DOMAIN pl_tasks : TaskFrameDone(t)
  \/ \E t \in DOMAIN pl_tasks : TaskEnds(t)
  \/ \E t \in DOMAIN pl_tasks : TaskCancelled(t)
  \/ PlCleanup
  \/ PlCleanupAfterStop
  \/ \E c \in CleanupNames, outcome \in {"suspends", "ok", "raised"} :
        CompCleanupBegin(c, outcome)
  \/ \E c \in CleanupNames, outcome \in CleanupEndOutcomes : CompCleanupEnd(c, outcome)
  \/ PlCleanupReturns

(***************************************************************************)
(* FaceRecognitionPipeline._pipeline_loop, frame by frame                   *)
(*                                                                         *)
(* One running loop task and the FaceTracker it drives.  A frame is one     *)
(* call of _process_frame: detection and face_tracker.update first, then,   *)
(* after the awaits, the recognition work for the tracks that                *)
(* get_tracks_for_recognition returns.                                      *)
(***************************************************************************)
MaxLoopFrames == 4      \* frames of the source explored

\* detect_faces(frame): a list of detections, or an exception
DetectOutcomes ==
  { [raises |-> FALSE, dets |-> d] : d \in RecDetectionLists \cup {<<>>} }
  \cup { [raises |-> TRUE, dets |-> <<>>] }

\* extract_embedding is called with the crop array (line 306); it reads the
\* face_crop attribute of its argument before its own try: AttributeError
ExtractOutcomes == {"raises"}

\* per track of a frame: whether the crop has pixels, the liveness verdict,
\* and what extract_embedding does
AttemptInputs == [crop : {"ok", "empty"}, live : BOOLEAN, extract : ExtractOutcomes]

\* _process_recognition_track up to the search: an embedding that was
\* extracted is read through .embedding (line 313), which FaceEmbedding lacks
AttemptResult(o) ==
  IF o.crop = "empty" THEN "returned"
  ELSE IF ~o.live THEN "spoof"
  ELSE IF o.extract = "none" THEN "no_embedding"
  ELSE "raised"

\* the ends of _process_recognition_track in which publish_recognition
\* returned True (line 350), by the is_match of the match result
PublishedResults == {"published_match", "published_no_match"}

\* a handler that also stamps the track after a spoof verdict
MarkedAfterSpoofToo(r) == r \in PublishedResults \cup {"spoof"}

\* track.mark_recognized() is called under "if success" only (lines 350-352)
MarkedAfter(r) == r \in PublishedResults

\* a statistic that is overwritten with the count of the frame
FacesDetectedAfterOverwrite(n, dets) == Len(dets)

\* self.stats.faces_detected += len(detections) (line 254)
FacesDetectedAfter(n, dets) == n + Len(dets)

\* a loop whose frame handler lets the exception through: the except of
\* _pipeline_loop ends the loop
AfterFrameUncaught(raised) == IF raised THEN "ended" ELSE "waiting"

\* where the loop stands after _process_frame: whatever was raised was caught
\* at line 364 or 270, the loop waits for the next frame
AfterFrame(raised) == "waiting"

\* _process_frame returns (finally, lines 272-279) and the loop counts the frame
FrameOver(raised, ghost) ==
  /\ frame_pc' = AfterFrame(raised)
  /\ pl_frames_processed' =
       IF AfterFrame(raised) = "waiting" THEN pl_frames_processed + 1
       ELSE pl_frames_processed
  /\ frm_ghost' = [ghost EXCEPT !.raised_in = IF raised THEN ghost.handled ELSE @]

\* the loop takes a frame: _process_frame up to face_tracker.update (lines
\* 249-260); an empty detection list returns at line 257
FrameDetect(out) ==
  /\ frame_pc = "waiting"
  /\ frm_ghost.handled < MaxLoopFrames
  /\ faces_detected' = IF out.raises THEN faces_detected
                       ELSE FacesDetectedAfter(faces_detected, out.dets)
  /\ UNCHANGED <<faces_recognized, recognitions_published>>
  /\ LET ghost == [frm_ghost EXCEPT !.handled = @ + 1,
                     !.detect_faults = IF out.raises THEN @ + 1 ELSE @,
                     !.cycle = <<>>]
     IN IF out.raises \/ out.dets = <<>>
        THEN /\ FrameOver(out.raises, ghost)
             /\ UNCHANGED trkVars
        ELSE /\ UpdateWithin(out.dets, MaxLoopFrames)
             /\ frame_pc' = "recognize"
             /\ frm_ghost' = ghost
             /\ UNCHANGED pl_frames_processed
  /\ UNCHANGED <<now, idxVars, pubVars, plLifeVars>>

\* the rest of _process_frame (lines 262-268): get_tracks_for_recognition and
\* _process_recognition_track for every track it returned
FrameRecognize ==
  /\ frame_pc = "recognize"
  /\ LET rec == { id \in DOMAIN tracks :
                   ShouldRecognize(tracks[id], recognition_interval, now) }
     IN \E ins \in [rec -> AttemptInputs] :
          LET started == { id \in rec : ins[id].crop = "ok" }
              res == [id \in rec |-> AttemptResult(ins[id])]
              raised == \E id \in rec : res[id] = "raised"
              ghost == [frm_ghost EXCEPT
                          !.cycle = [id \in rec |->
                                       [crop |-> ins[id].crop, live |-> ins[id].live,
                                        result |-> res[id]]],
                          !.attempt_at = [id \in DOMAIN @ \cup started |->
                                            IF id \in started THEN now ELSE @[id]],
                          !.regap = @ \/ \E id \in started \cap DOMAIN frm_ghost.attempt_at :
                                            now - frm_ghost.attempt_at[id] < recognition_interval]
          IN /\ rec_result' = rec
             /\ rec_call' = [time |-> now, interval |-> recognition_interval]
             /\ tracks' = [id \in DOMAIN tracks |->
                             IF id \in rec /\ MarkedAfter(res[id])
                             THEN MarkRecognized(tracks[id], now) ELSE tracks[id]]
             /\ recognitions_published' = recognitions_published
                   + Cardinality({ id \in rec : res[id] \in PublishedResults })
             /\ faces_recognized' = faces_recognized
                   + Cardinality({ id \in rec : res[id] = "published_match" })
             /\ FrameOver(raised, ghost)
  /\ UNCHANGED <<now, disappeared_counts, total_tracks_created,
                 total_tracks_expired, frames_processed, next_track_id,
                 update_returned, trk_ghost, faces_detected, idxVars, pubVars,
                 plLifeVars>>

FrameNext ==
  \/ \E out \in DetectOutcomes : FrameDetect(out)
  \/ FrameRecognize
  \/ \E d \in TickSteps : TrkTick(d)

\* the publisher from construction to the end of cleanup
PubCleanNext ==
  \/ PubNext
  \/ PubCleanup
  \/ PubCleanupFlush
  \/ \E ans \in PostAnswersIn(backend_mode) : PostResponse("cl", ans)
  \/ BackoffWake("cl")

Init ==
  /\ now = StartTime
  /\ TrkInit
  /\ IdxInit
  /\ PubInit
  /\ PlInit

SpecTrk == Init /\ [][TrkNext]_vars

SpecRec == Init /\ [][RecNext]_vars

SpecHist == Init /\ [][HistNext]_vars

SpecIdx == Init /\ [][IdxNext]_vars

\* the GET and the reading of its body end (answered, failed or timed out), and
\* the event loop resumes the sync loop when its sleep is over
FairSpecIdx ==
  /\ Init /\ [][IdxRunNext]_vars
  /\ WF_vars(\E ans \in FetchAnswers : SyncFetchAnswer(ans))
  /\ WF_vars(\E body \in FetchBodies, outcome \in SaveOutcomes :
               SyncFetchBody(body, outcome))
  /\ WF_vars(BackgroundSync)

FairSpecSyncLoop ==
  /\ Init /\ [][IdxLoopNext]_vars
  /\ WF_vars(\E ans \in FetchAnswers : SyncFetchAnswer(ans))
  /\ WF_vars(\E body \in FetchBodies, outcome \in SaveOutcomes :
               SyncFetchBody(body, outcome))
  /\ WF_vars(BackgroundSyncWithin(MaxLoopSyncs))

SpecDedup == Init /\ [][DedupNext]_vars

SpecPub == Init /\ [][PubNext]_vars

SpecPubClean == Init /\ [][PubCleanNext]_vars

SpecPipe == Init /\ [][PlNext]_vars

SpecFrame == Init /\ [][FrameNext]_vars

\* the event loop runs the offline-retry worker whenever it can run: its sleep
\* ends, its probe and its POSTs are answered, its backoff ends
FairSpecPub ==
  /\ SpecPub
  /\ WF_vars(RWWake)
  /\ WF_vars(\E ans \in HealthAnswersIn(backend_mode) : RWProbeResponse(ans))
  /\ WF_vars(\E ans \in PostAnswersIn(backend_mode) : PostResponse("rw", ans))
  /\ WF_vars(BackoffWake("rw"))

(***************************************************************************)
(* Properties of the tracker                                               *)
(***************************************************************************)

\* C6 (track eviction): eviction is applied on every update() call, so no track
\* of the returned list has a disappeared counter above max_disappeared, i.e. a
\* track without a committed detection in max_disappeared + 1 consecutive calls
\* is absent from the returned list.
C6_EvictedOnEveryCall ==
  \A id \in update_returned :
    id \in DOMAIN disappeared_counts => disappeared_counts[id] <= max_disappeared

\* C7 (track continuity): while every update() call carried exactly one detection
\* whose centre moved at most max_distance from the previous one, exactly one
\* track exists after every call, it is the track created by the first call, and
\* no second track was ever created.
C7_TrackContinuity ==
  (trk_ghost.cont_ok /\ frames_processed >= 1) =>
    /\ DOMAIN tracks = {trk_ghost.cont_id}
    /\ update_returned = {trk_ghost.cont_id}
    /\ total_tracks_created = 1

\* three frames, one detection each, with a move of exactly max_distance
C7_Witness ==
  /\ trk_ghost.cont_ok
  /\ frames_processed >= 3
  /\ trk_ghost.cont_id \in DOMAIN tracks
  /\ LET h == tracks[trk_ghost.cont_id].position_history
     IN /\ Len(h) >= 3
        /\ \E i \in 1..(Len(h) - 1) :
             Distance2(h[i], h[i + 1]) = max_distance * max_distance

\* C8 as stated (recognition throttle): of two get_tracks_for_recognition(5.0)
\* calls made within 5 seconds of each other, only the first returns the track.
C8_SecondCallExcludes == trk_ghost.reoffered = FALSE

\* C8 as amended: once mark_track_recognized has been called for a track, a
\* get_tracks_for_recognition(5.0) call returns it only if 5 seconds have elapsed
\* since the mark, and returns it (when stable and active) once they have.
C8_ThrottleAfterMark ==
  rec_call.interval = recognition_interval =>
    \A id \in DOMAIN tracks \cap DOMAIN trk_ghost.marked_at :
      LET elapsed == rec_call.time - trk_ghost.marked_at[id]
      IN /\ id \in rec_result => elapsed >= recognition_interval
         /\ (IsStable(tracks[id]) /\ tracks[id].is_active
               /\ elapsed >= recognition_interval) => id \in rec_result

\* a marked track is returned again, 5 seconds after its mark
C8_Witness ==
  /\ rec_call.interval = recognition_interval
  /\ \E id \in rec_result \cap DOMAIN trk_ghost.marked_at :
       rec_call.time - trk_ghost.marked_at[id] >= recognition_interval

(***************************************************************************)
(* Properties of the index                                                 *)
(***************************************************************************)

\* C4: whenever sync_with_backend returns false, the index, the template list and
\* the template map that were serving before the call are unchanged after it, and
\* so are sync_count and last_sync_time.
C4_FailedSyncTouchesNothing ==
  [][ (sync_returned = "none" /\ sync_returned' = "false") =>
        /\ index' = index
        /\ templates' = templates
        /\ template_map' = template_map
        /\ sync_count' = sync_count
        /\ last_sync_time' = last_sync_time ]_vars

\* C5 (index rebuild atomicity): every query is answered from one complete
\* catalog, the one installed by the last rebuild that completed (the pre-rebuild
\* catalog while a sync is running or has failed, the post-rebuild one once it
\* has succeeded); no query observes an emptied or half-built index.
C5_QuerySeesOneCatalog ==
  search_out.made => search_out.view = idx_ghost.committed

(***************************************************************************)
(* Properties of the publisher                                             *)
(***************************************************************************)

\* C1 (dedup idempotence): of the publish_recognition calls made with the same
\* device code and person code at times of the same 10-second bucket, exactly one
\* places its event on the publish queue; every other one enqueues nothing and is
\* counted in events_deduplicated.
C1_DedupIdempotence ==
  /\ \A key \in DOMAIN pub_ghost.keys : pub_ghost.keys[key].queued = 1
  /\ Len(publish_queue) = Cardinality(DOMAIN pub_ghost.keys)
  /\ events_deduplicated = pub_ghost.calls - Cardinality(DOMAIN pub_ghost.keys)
  /\ (pub_last.kind = "publish" /\ ~pub_last.enqueued) =>
        \E key \in DOMAIN pub_ghost.keys :
           pub_ghost.keys[key].last = now /\ pub_ghost.keys[key].calls >= 2

\* two calls for one person, 5 s apart in one bucket: the second was deduplicated
C1_Witness ==
  /\ pub_last.kind = "publish"
  /\ ~pub_last.enqueued
  /\ \E key \in DOMAIN pub_ghost.keys :
        /\ pub_ghost.keys[key].calls = 2
        /\ pub_ghost.keys[key].last = now
        /\ pub_ghost.keys[key].last - pub_ghost.keys[key].first >= 5

\* the batch worker has handled every accepted event
BatchWorkerDone ==
  /\ pub_pc = "running"
  /\ pub_ghost.accepted >= 1
  /\ publish_queue = <<>>
  /\ bw_batch = <<>>
  /\ send["bw"].pc = "idle"

OfflineHoldsAllAccepted ==
  /\ Len(offline_queue) = Min(pub_ghost.accepted, offline_queue_size)
  /\ events_published = 0

\* C2 as stated (offline resilience): while every batch POST has been answered
\* 500, once the batch worker has handled the N accepted events the offline queue
\* holds min(N, offline_queue_size) events and events_published is 0.
C2_OfflineHoldsAll ==
  (pub_ghost.only_500 /\ BatchWorkerDone) => OfflineHoldsAllAccepted

\* C2 as amended: the same, in the states where the offline-retry worker holds no
\* batch it popped for a retry (such a batch is off the queue until its retry fails).
C2_OfflineHoldsAllAtRest ==
  (pub_ghost.only_500 /\ BatchWorkerDone /\ send["rw"].pc = "idle")
     => OfflineHoldsAllAccepted

\* more events than the offline queue takes, all answered 500, after a failed retry
C2_Witness ==
  /\ pub_ghost.only_500
  /\ BatchWorkerDone
  /\ send["rw"].pc = "idle"
  /\ pub_ghost.accepted > offline_queue_size
  /\ pub_ghost.rounds >= 1
  /\ events_failed > pub_ghost.accepted
  /\ Len(offline_queue) = offline_queue_size

\* C3 (offline drain liveness): once the backend answers 200 to the health probe
\* and to every POST, a non-empty offline queue eventually becomes empty; each
\* tick of the offline-retry worker removes min(batch_size, length) events and
\* none comes back, so a backlog of b events is gone after ceil(b / batch_size)
\* ticks.
C3_OfflineDrains ==
  /\ (backend_mode = "ok" /\ offline_queue # <<>>) ~> (offline_queue = <<>>)
  /\ [](backend_mode = "ok" =>
          Len(offline_queue)
             = Max(0, pub_ghost.ok_backlog - batch_size * pub_ghost.ok_ticks))

\* a backlog larger than one batch, drained in two ticks and delivered
C3_Witness ==
  /\ backend_mode = "ok"
  /\ pub_ghost.ok_backlog > batch_size
  /\ pub_ghost.ok_ticks = 2
  /\ offline_queue = <<>>
  /\ send["rw"].pc = "idle"
  /\ events_published >= pub_ghost.ok_backlog

Is2xxOr409(ans) ==
  ans.kind = "status" /\ (ans.status \in 200..299 \/ ans.status = 409)

\* C9 (delivery success): a batch POST answered with any 2xx status or with 409 is
\* treated as delivered: its events are counted as published, the batch is not
\* retried and none of its events is put on the offline queue.
C9_DeliveredOn2xxOr409 ==
  [][ (pub_last'.kind = "post" /\ Is2xxOr409(pub_last'.ans)) =>
        /\ events_published' = events_published + Len(pub_last'.events)
        /\ send'[pub_last'.w].pc = "idle"
        /\ offline_queue' = offline_queue
        /\ events_failed' = events_failed ]_vars

Is5xxOrTimeout(ans) ==
  \/ ans.kind = "timeout"
  \/ ans.kind = "status" /\ ans.status \in 500..599

Is4xxNot409(ans) ==
  ans.kind = "status" /\ ans.status \in 400..499 /\ ans.status # 409

\* C10 (bounded retry then demotion): a POST of a batch answered 5xx or timing out
\* is followed, after a sleep of retry_delay * 2^attempt, by another POST of the
\* same batch; no batch is posted more than max_retries + 1 times; when the last
\* allowed POST fails so, or a POST is answered 4xx other than 409, the events of
\* the batch are appended to the offline queue as far as it has room and all of
\* them are counted in events_failed.
C10_BoundedRetryThenDemotion ==
  [][ /\ pub_last'.kind = "post" =>
           LET w == pub_last'.w
               a == pub_last'.attempt
               b == pub_last'.events
               room == offline_queue_size - Len(offline_queue)
           IN /\ a + 1 <= max_retries + 1
              /\ (Is5xxOrTimeout(pub_last'.ans) /\ a < max_retries) =>
                    /\ send'[w].pc = "backoff"
                    /\ send'[w].delay = retry_delay * (2 ^ a)
                    /\ send'[w].events = b
                    /\ UNCHANGED <<offline_queue, events_failed, events_published>>
              /\ (\/ Is5xxOrTimeout(pub_last'.ans) /\ a = max_retries
                  \/ Is4xxNot409(pub_last'.ans)) =>
                    /\ send'[w].pc = "idle"
                    /\ offline_queue' = offline_queue \o SubSeq(b, 1, Min(Len(b), room))
                    /\ events_failed' = events_failed + Len(b)
                    /\ UNCHANGED events_published
      /\ \A w \in Workers :
           (send[w].pc = "backoff" /\ send'[w] # send[w]) =>
              /\ send'[w].pc = "post"
              /\ send'[w].attempt = send[w].attempt + 1
              /\ send'[w].events = send[w].events ]_vars

\* the last allowed POST of a two-event batch was answered 500 and the batch went
\* to the offline queue, which had room for only a part of it
C10_Witness ==
  /\ pub_last.kind = "post"
  /\ pub_last.attempt = max_retries
  /\ pub_last.ans = Status(500)
  /\ Len(pub_last.events) = 2
  /\ Len(offline_queue) = offline_queue_size
  /\ events_failed > offline_events
  /\ send[pub_last.w].pc = "idle"

\* C11 (permanent rejection): a batch whose POST is answered with a 4xx status
\* other than 409 is not sent again, neither by the retry loop nor later by the
\* offline-retry worker: it is dropped (it does not enter the offline queue) and
\* the failure counter is incremented once for it.
C11_RejectedBatchDropped ==
  [][ (pub_last'.kind = "post" /\ Is4xxNot409(pub_last'.ans)) =>
        /\ send'[pub_last'.w].pc = "idle"
        /\ offline_queue' = offline_queue
        /\ events_failed' > events_failed ]_vars

\* the events of the POST exchange just completed
LastPosted == { pub_last.events[i] : i \in DOMAIN pub_last.events }

\* C12 (offline queue bound with drop-newest): the offline queue never holds more
\* than offline_queue_size events; when a failed batch arrives, the events already
\* queued stay where they are, the arriving events are appended behind them while
\* there is room, and the ones arriving at a full queue are dropped.
C12_OfflineBoundDropNewest ==
  /\ [](Len(offline_queue) <= offline_queue_size)
  /\ [][ (pub_last'.kind = "post" /\ send'[pub_last'.w].pc = "idle"
            /\ ~IsSuccessStatus(pub_last'.ans)) =>
           LET room == offline_queue_size - Len(offline_queue)
               b == pub_last'.events
           IN /\ SubSeq(offline_queue', 1, Len(offline_queue)) = offline_queue
              /\ offline_queue' = offline_queue \o SubSeq(b, 1, Min(Len(b), room))
              /\ room = 0 => offline_queue' = offline_queue ]_vars

\* a failed batch arrived at a full offline queue: none of its events is in it
C12_Witness ==
  /\ pub_last.kind = "post"
  /\ send[pub_last.w].pc = "idle"
  /\ ~IsSuccessStatus(pub_last.ans)
  /\ Len(offline_queue) = offline_queue_size
  /\ \A i \in DOMAIN offline_queue : offline_queue[i] \notin LastPosted

\* C13: publish_recognition returns true exactly when the event it built has been
\* placed on the publish queue; a call that enqueues nothing does not return true.
C13_TrueIffEnqueued ==
  pub_last.kind = "publish" => (pub_last.returned <=> pub_last.enqueued)

\* C14 (batch trigger): the batch worker sends a batch only when it holds
\* batch_size events or when batch_timeout has elapsed since the batch started
\* (its first event was added), and no batch it sends holds more than batch_size
\* events.
C14_BatchTrigger ==
  /\ Len(bw_batch) <= batch_size
  /\ bw_pc = "sending" =>
        \/ Len(bw_batch) = batch_size
        \/ pub_ghost.batch_age >= batch_timeout

\* C15: when the publisher's cleanup has returned, both workers have stopped,
\* the publish queue is empty, and every event that was on the publish queue
\* or in the batch worker's pending batch when cleanup began has been part of
\* a final send attempt and is now either delivered or on the offline queue
C15_CleanupFlushesAll ==
  pub_pc = "closed" =>
    /\ bw_pc = "done"
    /\ rw_pc = "done"
    /\ publish_queue = <<>>
    /\ pub_ghost.cl_pending \subseteq pub_ghost.cl_sent
    /\ \A e \in pub_ghost.cl_pending :
          e \in pub_ghost.cl_delivered \/ e \in EventIds(offline_queue)

InitializeReturnedFalse == pl_last.op = "initialize" /\ ~pl_last.returned

\* C16: when the pipeline's initialize returns False because a step failed, no
\* component after the failing one has been initialized, and every component
\* initialized before it has had its cleanup run
C16_FailFastUnwinds ==
  InitializeReturnedFalse =>
    /\ \A i \in (init_step + 1)..Len(ComponentOrder) :
          components[ComponentOrder[i]] = "none"
    /\ \A c \in CleanupNames :
          components[c] = "initialized" => cleanups[c] \in {"ok", "raised"}

AliveTasks == { t \in DOMAIN pl_tasks : TaskAlive(t) }

TasksInFrame == { t \in DOMAIN pl_tasks : pl_tasks[t] = "in_frame" }

\* C17: a start() call made while running and a stop() call made while not
\* running change no state and create or cancel no task; whenever no stop is
\* still waiting for its task, at most one frame-loop task is alive; and at
\* most one task is ever inside _process_frame, so tracker updates and publish
\* calls never overlap
C17_StartStopIdempotent ==
  /\ [][ (pl_calls' = pl_calls + 1 /\ pl_last'.op = "start" /\ running) =>
            UNCHANGED <<running, pipeline_task, pl_tasks, stop_waiting, components,
                        cleanups>> ]_vars
  /\ [][ (pl_calls' = pl_calls + 1 /\ pl_last'.op = "stop" /\ ~running) =>
            UNCHANGED <<running, pipeline_task, pl_tasks, stop_waiting, components,
                        cleanups>> ]_vars
  /\ []((stop_waiting = {} /\ cleanup_pc # "stopping") => Cardinality(AliveTasks) <= 1)
  /\ [](Cardinality(TasksInFrame) <= 1)

\* a start() call was a no-op on a pipeline that was stopped and started
\* again, while the second task is processing a frame
C17_Witness ==
  /\ pl_last.op = "start"
  /\ pl_last.noop
  /\ Len(pl_tasks) >= 2
  /\ pl_tasks[1] = "done"
  /\ pl_tasks[pipeline_task] = "in_frame"

CleanupBegun(c) == cleanups[c] \in {"running", "ok", "raised"}

CleanupOver(c) == cleanups[c] \in {"idle", "ok", "raised"}

FrameLoopEndedBeforeRelease ==
  (\E c \in CleanupNames : cleanups[c] # "idle") => AliveTasks = {}

\* C18: no component cleanup is collected or begun (and so no background
\* worker is cancelled) while a frame-loop task is alive, and the component
\* cleanups run one after the other in the order publisher, uploader, index,
\* frame source: one has begun only if every one before it is over
C18_CleanupOrdering ==
  /\ FrameLoopEndedBeforeRelease
  /\ \A j \in DOMAIN CleanupOrder : \A i \in 1..(j - 1) :
        CleanupBegun(CleanupOrder[j]) => CleanupOver(CleanupOrder[i])

\* C19: when the pipeline's cleanup has returned, the cleanup of every
\* component it holds has run to its end, whether it returned or raised, also
\* when the cleanup of another component raised; cleanup itself returns
\* normally (the model has no step in which it raises)
C19_CleanupTolerant ==
  cleanup_pc = "done" =>
    \A c \in CleanupNames : components[c] # "none" => cleanups[c] \in {"ok", "raised"}

\* cleanup returned although the publisher's cleanup, the first to run, raised:
\* the three others ran and returned
C19_Witness ==
  /\ pl_last.op = "cleanup"
  /\ cleanup_pc = "done"
  /\ cleanups["recognition_publisher"] = "raised"
  /\ \A c \in CleanupNames \ {"recognition_publisher"} : cleanups[c] = "ok"

\* C20: a get_tracks_for_recognition(min_interval) call returns exactly the
\* tracks that are active, have lasted at least 0.5 s, hold at least 3
\* detections and were last recognized at least min_interval before the call;
\* and when at least three update() calls, spread over at least 0.5 s, each
\* carried one detection near the previous one, get_tracks_for_recognition(0)
\* returns exactly the track that the first call created
C20_RecognitionCandidates ==
  rec_call # NoCall =>
    /\ rec_result =
         { id \in DOMAIN tracks :
             /\ tracks[id].is_active
             /\ 2 * (tracks[id].last_seen - tracks[id].first_seen) >= 1
             /\ Len(tracks[id].detections) >= 3
             /\ rec_call.time - tracks[id].last_recognition_time >= rec_call.interval }
    /\ ( /\ rec_call.interval = 0
         /\ trk_ghost.cont_ok
         /\ frames_processed >= 3
         /\ 2 * (trk_ghost.last_update - trk_ghost.first_update) >= 1 )
       => rec_result = {trk_ghost.cont_id}

\* get_tracks_for_recognition(0) after three single-detection frames spread in
\* time returned the one track
C20_Witness ==
  /\ rec_call # NoCall
  /\ rec_call.interval = 0
  /\ trk_ghost.cont_ok
  /\ frames_processed >= 3
  /\ 2 * (trk_ghost.last_update - trk_ghost.first_update) >= 1
  /\ rec_result = {trk_ghost.cont_id}
  /\ DOMAIN tracks = {trk_ghost.cont_id}

\* C21: a mark_track_recognized(track_id) call for an id of the active set adds
\* exactly one to that track's recognition_attempts and sets its
\* last_recognition_time to now, leaving its other fields, every other track
\* and the tracker's counters unchanged; for an unknown id it leaves the whole
\* tracker state unchanged
C21_MarkTouchesOneTrack ==
  [][ \A id \in 1..next_track_id :
        MarkTrackRecognized(id) =>
          /\ UNCHANGED <<disappeared_counts, total_tracks_created, total_tracks_expired,
                         frames_processed, next_track_id>>
          /\ DOMAIN tracks' = DOMAIN tracks
          /\ \A o \in DOMAIN tracks \ {id} : tracks'[o] = tracks[o]
          /\ id \in DOMAIN tracks =>
                /\ tracks'[id].recognition_attempts = tracks[id].recognition_attempts + 1
                /\ tracks'[id].last_recognition_time = now
                /\ \A f \in DOMAIN tracks[id] \
                            {"recognition_attempts", "last_recognition_time"} :
                      tracks'[id][f] = tracks[id][f] ]_vars

\* one of two tracks has been marked once, at the time recorded for the call;
\* the other has never been marked
C21_Witness ==
  \E id \in DOMAIN tracks \cap DOMAIN trk_ghost.marked_at :
    /\ tracks[id].recognition_attempts = 1
    /\ tracks[id].last_recognition_time = trk_ghost.marked_at[id]
    /\ \E o \in DOMAIN tracks \ {id} :
          tracks[o].recognition_attempts = 0 /\ tracks[o].last_recognition_time = 0

\* C22: a search_similar call on an index that is empty or not yet created
\* returns exactly one result, a non-match with no person code, no template
\* id, similarity 0 and infinite distance, whatever the query and k
C22_EmptyIndexNoMatch ==
  (search_out.made /\ search_out.view.vecs = <<>>) =>
    /\ Len(search_out.results) = 1
    /\ ~search_out.results[1].is_match
    /\ search_out.results[1].employee_code = "None"
    /\ search_out.results[1].template_id = "None"
    /\ search_out.results[1].similarity = 0
    /\ search_out.results[1].distance.inf

\* a query of another dimension, with k = 2, on the index that a sync of an
\* empty catalog left
C22_Witness ==
  /\ search_out.made
  /\ search_out.view.vecs = <<>>
  /\ index.exists
  /\ sync_count >= 1
  /\ search_out.k = 2
  /\ Len(search_out.query) # embedding_dim

\* the cosine similarity of the last query with row r of the index it was
\* answered from, in fixed point
QuerySim(r) ==
  Dot(Normalize(search_out.query), search_out.view.vecs[r], Len(search_out.query))

\* the last search was a query of the index's dimension on a non-empty index
SearchedNonEmpty ==
  /\ search_out.made
  /\ search_out.view.vecs # <<>>
  /\ Len(search_out.query) = embedding_dim

\* C23: a search_similar call on a non-empty index returns between 1 and k
\* results in order of non-increasing similarity; the first is the catalog
\* template most similar to the query; a result is a match exactly when its
\* similarity is at least the threshold; a query equal to a stored template is
\* a match and a query orthogonal to every stored template is not
C23_RankedResults ==
  SearchedNonEmpty =>
    LET res == search_out.results
        rows == DOMAIN search_out.view.vecs
        tmap == search_out.view.map
    IN /\ Len(res) >= 1
       /\ Len(res) <= search_out.k
       /\ \A i, j \in DOMAIN res : i < j => res[i].similarity >= res[j].similarity
       /\ \E r \in rows :
            /\ \A o \in rows : QuerySim(o) <= QuerySim(r)
            /\ res[1].similarity = QuerySim(r)
            /\ (r - 1) \in DOMAIN tmap
            /\ res[1].template_id = tmap[r - 1].template_id
            /\ res[1].employee_code = tmap[r - 1].employee_code
            /\ tmap[r - 1].embedding = search_out.view.vecs[r]
       /\ \A i \in DOMAIN res :
            res[i].is_match <=>
              res[i].similarity * 10 >= similarity_threshold_tenths * Scale * Scale
       /\ (\E r \in rows : search_out.view.vecs[r] = Normalize(search_out.query))
            => res[1].is_match
       /\ (\A r \in rows : QuerySim(r) = 0) => ~res[1].is_match

\* C24: every MatchResult with is_match = true that search_similar returns
\* carries a person code and a template id, and both are those of one
\* template of the template map the query was answered from
C24_MatchHasIdentity ==
  search_out.made =>
    \A i \in DOMAIN search_out.results :
      search_out.results[i].is_match =>
        /\ search_out.results[i].employee_code # "None"
        /\ search_out.results[i].template_id # "None"
        /\ \E m \in DOMAIN search_out.view.map :
              /\ search_out.view.map[m].employee_code =
                   search_out.results[i].employee_code
              /\ search_out.view.map[m].template_id = search_out.results[i].template_id

\* a search with k = 2 on a catalog of two templates returned a match
C24_Witness ==
  /\ search_out.made
  /\ Len(search_out.results) = 2
  /\ search_out.results[1].is_match
  /\ search_out.results[1].employee_code = "E2"
  /\ search_out.results[1].template_id = "T2"

\* both cache files can be read: _load_cached_index would serve from them
CacheLoadable == disk.index_file.state = "ok" /\ disk.meta_file.state = "ok"

\* C26: at every moment the (index, template metadata) pair on disk that a
\* later initialize() would load comes from one catalog snapshot: the rows of
\* the index file are the embeddings of the templates of the metadata file, in
\* order, and the template map of the metadata file numbers these templates
C26_CachePairOneSnapshot ==
  CacheLoadable =>
    LET tpls == disk.meta_file.content.templates
    IN /\ disk.index_file.content.vecs = [i \in DOMAIN tpls |-> tpls[i].embedding]
       /\ disk.meta_file.content.template_map = Enumerate(tpls)

\* initialize has returned True: its initial sync has returned and the
\* background sync loop has been started and sleeps
IdxReadyAfterStartup ==
  idx_pc = "sleeping" /\ idx_ghost.runs = 1 /\ sync_returned \in {"true", "false"}

\* C25: whatever the cache files are (absent, one of the two present,
\* unreadable), initialize starts from an empty index when the cache cannot be
\* loaded, runs one sync, whose result it ignores, and then becomes ready;
\* the background loop runs its first sync only after that
C25_StartupSurvivesCache ==
  /\ [][ (idx_pc = "constructed" /\ idx_pc' = "get" /\ ~CacheLoadable) =>
            /\ index' = NewIndex
            /\ templates' = <<>>
            /\ template_map' = <<>> ]_vars
  /\ [][ (idx_ghost.runs = 1 /\ idx_ghost'.runs = 2) => IdxReadyAfterStartup ]_vars
  /\ [](idx_ghost.runs = 0 => idx_pc = "constructed")
  /\ ((idx_pc = "get" /\ idx_ghost.runs = 1) ~> IdxReadyAfterStartup)

\* ready on an empty index: the index file could be read, the metadata file
\* could not, and the initial sync failed
C25_Witness ==
  /\ IdxReadyAfterStartup
  /\ idx_ghost.boot = <<"ok", "corrupt">>
  /\ sync_returned = "false"
  /\ index = NewIndex
  /\ template_map = <<>>


\* C27: a sync that returned False in the background loop does not end the
\* loop: the next tick starts another sync_with_backend; and while a sync
\* waits for the backend (for the answer to its GET or for the body), a
\* search_similar call made is answered at once, from the index as it is, with
\* the sync still waiting.
SyncWaiting == idx_pc \in {"get", "json"}

C27_SyncRetried ==
  /\ \A n \in 1..(MaxLoopSyncs - 1) :
        (idx_pc = "sleeping" /\ sync_returned = "false" /\ idx_ghost.runs = n)
          ~> (idx_pc = "get" /\ idx_ghost.runs = n + 1)
  /\ [][ (SyncWaiting /\ searches_performed' # searches_performed) =>
            /\ search_out'.made
            /\ search_out'.view = View(index, template_map)
            /\ idx_pc' = idx_pc /\ idx_ghost' = idx_ghost ]_vars

\* the initial sync and the first sync of the loop both failed, the loop's
\* second sync waits for the backend, and a search was just answered
C27_Witness ==
  /\ idx_pc = "get"
  /\ idx_ghost.runs = 3
  /\ sync_count = 0
  /\ search_out.made


\* C28: an exception raised while a frame is processed (by detect_faces, or in
\* the recognition work of a track) is caught inside that _process_frame call:
\* the loop counts the frame, never ends on it, and waits for the next frame of
\* the source.
FrameRaised == frm_ghost'.raised_in = frm_ghost'.handled /\ frm_ghost.raised_in # frm_ghost'.handled

C28_FrameFaultIsolated ==
  /\ [](frame_pc # "ended")
  /\ [][ FrameRaised =>
            /\ frame_pc' = "waiting"
            /\ pl_frames_processed' = pl_frames_processed + 1 ]_vars
  /\ [](frame_pc = "waiting" => pl_frames_processed = frm_ghost.handled)

\* the recognition work of a track raised in an earlier frame (detect_faces
\* never did), and a later frame went through face_tracker.update and the
\* recognition step
C28_Witness ==
  /\ frame_pc = "waiting"
  /\ frm_ghost.detect_faults = 0
  /\ frm_ghost.raised_in > 0
  /\ frm_ghost.handled > frm_ghost.raised_in
  /\ rec_call # NoCall


\* C29: for every track, two consecutive starts of the recognition work
\* (liveness, then embedding and match) in the frame loop are at least
\* recognition_interval seconds apart, whatever the earlier one ended in.
C29_AttemptsSpaced == ~frm_ghost.regap

\* C30: every frame the loop hands to _process_frame, unless detect_faces
\* raised for it, leads to exactly one face_tracker.update call, frames without
\* a detection included: once the frame is over, update has been called as many
\* times as frames were handled.
C30_OneUpdatePerFrame ==
  frame_pc = "waiting" =>
    frames_processed = frm_ghost.handled - frm_ghost.detect_faults


\* C31: in a recognition step, publish_recognition is reached for a track only
\* when its liveness verdict was live (on a crop with pixels); after a spoof
\* verdict or a failed extraction the track is not stamped as recognized and
\* neither recognitions_published nor faces_recognized changes.
RecognitionStep == frame_pc = "recognize" /\ frame_pc' # "recognize"

C33_EmptyUpdate ==
  [][ Update(<<>>) =>
        /\ tracks' = tracks
        /\ DOMAIN disappeared_counts' = DOMAIN disappeared_counts \cup DOMAIN tracks
        /\ \A id \in DOMAIN tracks :
              disappeared_counts'[id] = GetCount(disappeared_counts, id) + 1
        /\ update_returned' = DOMAIN tracks
        /\ total_tracks_created' = total_tracks_created
        /\ total_tracks_expired' = total_tracks_expired
        /\ next_track_id' = next_track_id ]_vars

\* the two tracks that the first frame created have both just been counted
\* missing once by an update([])
C33_Witness ==
  /\ frames_processed = 2
  /\ \A id \in DOMAIN tracks :
        /\ disappeared_counts[id] = 1
        /\ Len(tracks[id].detections) = 1
  /\ Cardinality(DOMAIN tracks) = 2
  /\ total_tracks_created = 2


\* C34: update(dets) with dets non-empty appends every detection to exactly
\* one track, an existing track (the one it was committed to) or a track
\* created for it; these tracks have disappeared = 0; every other track that
\* existed is untouched and its disappeared counter is incremented by exactly
\* one (and it is then removed if that exceeds max_disappeared).  With no
\* track before the call every detection gets a new track.
AppendedTo(trk2, trk1, d) ==
  /\ trk2.detections = LastN(trk1.detections \o <<d>>, max_history)
  /\ trk2.first_seen = trk1.first_seen

CreatedFor(trk2, d) ==
  /\ trk2.detections = <<d>>
  /\ trk2.first_seen = now
  /\ trk2.recognition_attempts = 0

UpdateEffect(dets) ==
  \E f \in [DOMAIN dets -> DOMAIN tracks'] :
    /\ \A j, k \in DOMAIN dets : f[j] = f[k] => j = k
    /\ \A j \in DOMAIN dets :
          /\ IF f[j] \in DOMAIN tracks
             THEN AppendedTo(tracks'[f[j]], tracks[f[j]], dets[j])
             ELSE CreatedFor(tracks'[f[j]], dets[j])
          /\ tracks'[f[j]].last_seen = now
          /\ disappeared_counts'[f[j]] = 0
    /\ DOMAIN tracks' \subseteq DOMAIN tracks \cup { f[j] : j \in DOMAIN dets }
    /\ \A id \in DOMAIN tracks \ { f[j] : j \in DOMAIN dets } :
          IF id \in DOMAIN tracks'
          THEN /\ tracks'[id] = tracks[id]
               /\ disappeared_counts'[id] = GetCount(disappeared_counts, id) + 1
          ELSE GetCount(disappeared_counts, id) + 1 > max_disappeared
    /\ DOMAIN tracks = {} => Cardinality(DOMAIN tracks') = Len(dets)

C34_NonEmptyUpdate ==
  [][ \A dets \in DetectionLists \ {<<>>} : Update(dets) => UpdateEffect(dets) ]_vars

\* the second frame's first detection was committed to track 1, its second
\* one started track 3, and track 2 was counted missing once
C34_Witness ==
  /\ frames_processed = 2
  /\ DOMAIN tracks = {1, 2, 3}
  /\ Len(tracks[1].detections) = 2
  /\ Len(tracks[3].detections) = 1
  /\ disappeared_counts = <<0, 1, 0>>


\* C35: the pairs committed by _assign_detections_to_tracks are those of the
\* greedy reference procedure: among the (track, detection) pairs whose centres
\* are at most max_distance apart, taken by ascending distance, then track
\* enumeration order, then detection order, a pair is committed exactly when
\* no pair taken before it and committed shares its track or its detection.
\* So the committed pairs are a one-to-one matching within max_distance, and
\* update appends each committed detection to its track.
PairsInReach(tids, dets) ==
  { p \in (DOMAIN tids) \X (DOMAIN dets) :
      Distance2(TrackCenter(tracks[tids[p[1]]]), DetectionCenter(dets[p[2]]))
        <= max_distance * max_distance }

TakenBefore(p, q, tids, dets) ==
  LET dp == Distance2(TrackCenter(tracks[tids[p[1]]]), DetectionCenter(dets[p[2]]))
      dq == Distance2(TrackCenter(tracks[tids[q[1]]]), DetectionCenter(dets[q[2]]))
  IN \/ dp < dq
     \/ dp = dq /\ p[1] < q[1]
     \/ dp = dq /\ p[1] = q[1] /\ p[2] < q[2]

GreedyReference(dets) ==
  LET tids == SortedSeq(DOMAIN tracks)
      asg == AssignDetectionsToTracks(
               [j \in DOMAIN dets |-> DetectionCenter(dets[j])],
               [i \in DOMAIN tids |-> TrackCenter(tracks[tids[i]])], tids)
      M == { p \in (DOMAIN tids) \X (DOMAIN dets) : <<tids[p[1]], p[2]>> \in asg }
  IN /\ M \subseteq PairsInReach(tids, dets)
     /\ \A p \in PairsInReach(tids, dets) :
           p \in M <=> ~\E q \in M : /\ TakenBefore(q, p, tids, dets)
                                     /\ (q[1] = p[1] \/ q[2] = p[2])
     /\ \A p, q \in M : (p[1] = q[1] \/ p[2] = q[2]) => p = q
     /\ \A p \in M :
           tracks'[tids[p[1]]].detections =
             LastN(tracks[tids[p[1]]].detections \o <<dets[p[2]]>>, max_history)
     /\ \A i \in DOMAIN tids :
           (~\E p \in M : p[1] = i) =>
              (tids[i] \in DOMAIN tracks' => tracks'[tids[i]] = tracks[tids[i]])

C35_GreedyAssignment ==
  [][ \A dets \in DetectionLists \ {<<>>} :
        (Update(dets) /\ DOMAIN tracks # {}) => GreedyReference(dets) ]_vars

\* two tracks stood at the same place and the next frame had one detection
\* there: it went to the track that comes first, the other was counted missing
C35_Witness ==
  /\ frames_processed = 2
  /\ DOMAIN tracks = {1, 2}
  /\ tracks[1].detections[1] = tracks[2].detections[1]
  /\ Len(tracks[1].detections) = 2
  /\ Len(tracks[2].detections) = 1
  /\ disappeared_counts = <<0, 1>>


\* C36: the offline queue keeps the order in which the events entered it:
\* events are accepted with increasing event ids and first reach the offline
\* queue in that order, so an event is never queued behind one with a higher
\* id, also after a failed offline retry has re-queued its batch.
C36_BacklogOrder ==
  \A i, j \in DOMAIN offline_queue :
    i < j => offline_queue[i].event_id < offline_queue[j].event_id


\* C37: a track's detection, confidence and position histories always have
\* the same length, at most max_history; an add_detection appends to each and,
\* at the cap, evicts the oldest entry, the others keeping their order;
\* first_seen <= last_seen, and last_seen never decreases.
ShiftedIn(h2, h1, x) ==
  /\ Len(h2) = Min(Len(h1) + 1, max_history)
  /\ h2[Len(h2)] = x
  /\ \A k \in 1..(Len(h2) - 1) : h2[k] = h1[k + Len(h1) + 1 - Len(h2)]

C37_TrackHistory ==
  /\ [](\A id \in DOMAIN tracks :
          /\ Len(tracks[id].detections) = Len(tracks[id].confidence_history)
          /\ Len(tracks[id].detections) = Len(tracks[id].position_history)
          /\ Len(tracks[id].detections) <= max_history
          /\ tracks[id].first_seen <= tracks[id].last_seen)
  /\ [][ \A id \in DOMAIN tracks \cap DOMAIN tracks' :
           /\ tracks'[id].last_seen >= tracks[id].last_seen
           /\ tracks'[id] # tracks[id] =>
                LET d == tracks'[id].detections[Len(tracks'[id].detections)]
                IN /\ ShiftedIn(tracks'[id].detections, tracks[id].detections, d)
                   /\ ShiftedIn(tracks'[id].confidence_history,
                                tracks[id].confidence_history, d.confidence)
                   /\ ShiftedIn(tracks'[id].position_history,
                                tracks[id].position_history, DetectionCenter(d)) ]_vars

\* every frame so far went to the one track, more frames than the cap, over
\* some seconds: its histories are full and its oldest entries were evicted
C37_Witness ==
  /\ total_tracks_created = 1
  /\ frames_processed = max_history + 2
  /\ \E id \in DOMAIN tracks :
        /\ Len(tracks[id].detections) = max_history
        /\ tracks[id].first_seen < tracks[id].last_seen
        /\ tracks[id].detections[1] # tracks[id].detections[max_history]


\* C38 (bucket boundary): a publish_recognition call places its event on the
\* publish queue exactly when no earlier call had the same device code, person
\* code and 10-second bucket; an earlier event of another bucket does not
\* suppress it, however close in time (less than dedup_window apart).
C38_BucketBoundary ==
  [][ \A dev \in Devices, emp \in Persons :
        Publish(dev, emp) =>
          LET key == <<dev, emp, now \div bucket_seconds>>
          IN IF key \in DOMAIN pub_ghost.keys
             THEN publish_queue' = publish_queue
             ELSE publish_queue' =
                    Append(publish_queue, Event(pub_ghost.calls + 1, dev, emp, now)) ]_vars

\* two events of one person, 5 s apart across a bucket boundary, both queued
C38_Witness ==
  \E i, j \in DOMAIN publish_queue :
     /\ publish_queue[i].device_code = publish_queue[j].device_code
     /\ publish_queue[i].employee_code = publish_queue[j].employee_code
     /\ publish_queue[j].timestamp - publish_queue[i].timestamp = 5
     /\ publish_queue[i].timestamp \div bucket_seconds
          # publish_queue[j].timestamp \div bucket_seconds


\* the events the publisher holds, place after place: the publish queue, the
\* batch worker's batch (pending or being sent), the batches being sent by the
\* offline-retry worker and by the final flush, the offline queue
HeldEvents ==
  publish_queue \o bw_batch \o send["rw"].events \o send["cl"].events \o offline_queue

\* C39 (event conservation): at all times every accepted event is in exactly
\* one place: held by the publisher (publish queue, a worker's batch, offline
\* queue), acknowledged by the backend (events_published), or dropped because
\* the offline queue was full (events_failed - offline_events); no event is
\* held twice and none disappears, whatever the interleaving of publish calls,
\* workers and cleanup.
C39_EventConservation ==
  /\ \A i, j \in DOMAIN HeldEvents :
        i # j => HeldEvents[i].event_id # HeldEvents[j].event_id
  /\ pub_ghost.accepted =
        Len(HeldEvents) + events_published + (events_failed - offline_events)


\* C40 (tracker bookkeeping): after every update() call the track map and the
\* disappeared-counter map have the same keys, every disappeared counter is
\* >= 0, and total_tracks_created - total_tracks_expired is the number of
\* tracks in the map.
C40_TrackerBookkeeping ==
  /\ DOMAIN tracks = DOMAIN disappeared_counts
  /\ \A id \in DOMAIN disappeared_counts : disappeared_counts[id] >= 0
  /\ total_tracks_created - total_tracks_expired = Cardinality(DOMAIN tracks)

\* tracks were created in two different frames, one of them has expired and
\* one that is left was missing from the last frame
C40_Witness ==
  /\ total_tracks_expired >= 1
  /\ total_tracks_created >= 3
  /\ next_track_id - 1 \in DOMAIN tracks
  /\ \E id \in DOMAIN tracks : disappeared_counts[id] > 0

====
